---- MODULE Spec2Model ----
(***************************************************************************)
(* ShowSweep: the eligibility pipeline of cli.main_cli, the three caching  *)
(* adapters (OverseerrClient, TautulliClient, PlexClient), SonarrClient    *)
(* and DatabaseManager.                                                    *)
(*                                                                         *)
(* Time is counted in ticks of one hour: cache_ttl = cache_ttl_hours*3600  *)
(* seconds is CacheTtlHours ticks, requests_cache_ttl = 3600 seconds is    *)
(* one tick.  Python's None is modelled by a record with found = FALSE     *)
(* (cache and table rows) and by 0 (a TVDB id; real ids are >= 1).         *)
(***************************************************************************)
EXTENDS Integers, Sequences, FiniteSets, TLC

\* ------------------------------------------------------------------ bounds
NumShows == 2
\* the clock: of a main_cli run, and of the adapter queries of AdapterSpec
MaxRunTime == 1
MaxTime == 2
MaxRuns == 1
\* A main_cli run is explored for every combination of inputs (arguments,
\* answers of the external services, typed choices, clock ticks) of which at
\* most MaxDeviations differ from the plain input: an unattended run with no
\* other flag set, the service answers and has nothing to report for the
\* show, the operation succeeds.
MaxDeviations == 3
\* a run over rows that earlier runs left in the caches: the inputs of the
\* run that may differ from the plain one
PriorDeviations == 2
\* a run followed by further runs over the database the earlier ones left:
\* the number of further runs, and the inputs that may differ from the plain
\* one over all the runs together
MaxReruns == 1
RerunDeviations == 2
\* the Overseerr server's answers: pages and records per page
MaxPages == 1
MaxPageLen == 1
\* the pages of a bulk answer where the request client is queried on its own
\* against a paginating server
MaxFetchPages == 2
MaxStats == 2
MaxHistory == 1
\* the request records of one bulk answer, where their number and order matter
MaxRequests == 2
\* configuration values ([general] of config.ini), in the model's units
CacheTtlHours == 2
ThresholdTicks == 1
RateLimit == 2
\* the RateLimiter on its own: the configured rate per minute, the threads
\* calling acquire() and the calls each makes, the resolution of its clock
\* (one tick is 60 / (LimiterRate * TokenScale) seconds, tokens are counted in
\* units of 1 / TokenScale), and how far the clock runs when nobody sleeps
LimiterRate == 2
NumThreads == 2
MaxCalls == 2
TokenScale == 2
MaxClock == 4
\* program constant: requests_cache_ttl = 3600 seconds = 1 tick
RequestsCacheTtl == 1

Shows == 1..NumShows
Min(a, b) == IF a < b THEN a ELSE b
Max(a, b) == IF a > b THEN a ELSE b
Last(s) == s[Len(s)]

\* ------------------------------------------------------------ RateLimiter
\* [tokens, last]; one tick is 3600 s, so elapsed ticks refill
\* 3600 * (rate / 60) = 60 * rate tokens each, capped at rate.  The sleep of
\* the tokens < 1 branch is shorter than a tick and does not move the clock.
NewLimiter(t) == [tokens |-> RateLimit, last |-> t]

acquire(l, t) ==
    LET refilled == Min(l.tokens + (t - l.last) * 60 * RateLimit, RateLimit)
    IN  [tokens |-> IF refilled < 1 THEN 0 ELSE refilled - 1, last |-> t]

\* The same class at the resolution of its arithmetic, one step per
\* statement.  A limiter is [rate, tokens, last, lock]; lock is the thread
\* holding self.lock, 0 when it is free.
Threads == 1..NumThreads
Rates == {0, LimiterRate}

\* RateLimiter.__init__
NewRateLimiter(rate, t) ==
    [rate |-> rate, tokens |-> rate * TokenScale, last |-> t, lock |-> 0]

\* a with-statement that enters whoever holds the lock
lock_ignored(l) == TRUE

\* `with self.lock` can enter
lock_free(l) == l.lock = 0

\* self.tokens += elapsed * (self.rate / 60)
refill(l, elapsed) == l.tokens + (elapsed * l.rate) \div LimiterRate

\* if self.tokens > self.rate: self.tokens = self.rate
cap(l) == IF l.tokens > l.rate * TokenScale THEN l.rate * TokenScale ELSE l.tokens

\* (1 - self.tokens) * 60 / self.rate, in ticks; the rate is not 0
sleep_time(l) == ((TokenScale - l.tokens) * LimiterRate) \div l.rate

\* a thread outside acquire(); entry is the limiter as the thread found it
\* when it entered the with-block
IdleThread ==
    [pc |-> "idle", now |-> 0, wake |-> 0, calls |-> 0,
     entry |-> [tokens |-> 0, last |-> 0]]

\* ------------------------------------------------------------ cache rows
NoRow == [found |-> FALSE, value |-> FALSE, last_checked |-> 0]
\* a write that stores 0 whatever the answer was
RowNegative(v, t) == [found |-> TRUE, value |-> FALSE, last_checked |-> t]

\* REPLACE INTO <cache> VALUES (show_id, v, t)
Row(v, t) == [found |-> TRUE, value |-> v, last_checked |-> t]
EmptyCache == [s \in Shows |-> NoRow]

\* a freshness test that still trusts an entry of age exactly cache_ttl
IsFreshInclusive(row, t) == row.found /\ (t - row.last_checked) <= CacheTtlHours

\* age < self.cache_ttl on a row that exists
IsFresh(row, t) == row.found /\ (t - row.last_checked) < CacheTtlHours

\* a handler that falls back on the expired row when the source cannot be asked
failure_result_stale(row) == row.found /\ row.value

\* the except handlers of the adapters' queries: log the error, return False
failure_result(row) == FALSE

\* the TVDB id the external services know for show s
TvdbOf(s) == s

\* --------------------------------------------------------------- PlexClient
\* What the Plex server answers to has_watch_history's query:
\* an exception, the show missing from the library, or a play history.
PlexResponses ==
    {[kind |-> "error", history |-> 0], [kind |-> "not_found", history |-> 0]}
    \cup {[kind |-> "ok", history |-> n] : n \in 0..MaxHistory}

PlainPlex == [kind |-> "ok", history |-> 0]

\* a query that stores 'not watched' when the server could not be asked
query_history_caching_errors(cache, lim, t, show_id, resp) ==
         LET lim2 == acquire(lim, t)
             stale == cache[show_id].found
             has == resp.kind = "ok" /\ resp.history > 0
         IN  [ret |-> has,
              cache |-> [cache EXCEPT ![show_id] = Row(has, t)],
              lim |-> lim2, acquires |-> 1, calls |-> 1,
              path |-> IF stale THEN "stale" ELSE "miss",
              failed |-> resp.kind = "error"]

\* has_watch_history past its cache check (plex_client.py 144-176): one
\* token, one query of the server, and the row written unless it failed
query_history(cache, lim, t, show_id, resp) ==
         LET lim2 == acquire(lim, t)
             stale == cache[show_id].found
         IN  CASE resp.kind = "error" ->
                    [ret |-> failure_result(cache[show_id]), cache |-> cache,
                     lim |-> lim2,
                     acquires |-> 1, calls |-> 1,
                     path |-> IF stale THEN "stale" ELSE "miss", failed |-> TRUE]
               [] resp.kind = "not_found" ->
                    [ret |-> FALSE,
                     cache |-> [cache EXCEPT ![show_id] = Row(FALSE, t)],
                     lim |-> lim2, acquires |-> 1, calls |-> 1,
                     path |-> IF stale THEN "stale" ELSE "miss", failed |-> FALSE]
               [] OTHER ->
                    LET has == resp.history > 0
                    IN  [ret |-> has,
                         cache |-> [cache EXCEPT ![show_id] = Row(has, t)],
                         lim |-> lim2, acquires |-> 1, calls |-> 1,
                         path |-> IF stale THEN "stale" ELSE "miss",
                         failed |-> FALSE]

\* a check that asks the server whatever the age of its row
has_watch_history_uncached(cache, lim, t, show_id, resp) ==
    query_history(cache, lim, t, show_id, resp)

\* PlexClient.has_watch_history: the returned bool, the new plex_cache and
\* limiter, and what the call did (acquires, external calls, path taken).
has_watch_history(cache, lim, t, show_id, resp) ==
    IF IsFresh(cache[show_id], t)
    THEN [ret |-> cache[show_id].value, cache |-> cache, lim |-> lim,
          acquires |-> 0, calls |-> 0, path |-> "fresh", failed |-> FALSE]
    ELSE query_history(cache, lim, t, show_id, resp)

\* ----------------------------------------------------------- TautulliClient
\* get_metadata's answer as _fetch_metadata + _extract_tvdb_id see it.
MetaResponses == {"error", "no_tvdb", "tvdb"}

\* _fetch_metadata followed by _extract_tvdb_id: the id, or 0 for None.
fetch_metadata_tvdb(show_id, meta) == IF meta = "tvdb" THEN TvdbOf(show_id) ELSE 0

\* sequences over S of length 0..n
RECURSIVE SeqsUpTo(_, _)
SeqsUpTo(S, n) ==
    IF n = 0 THEN {<<>>}
    ELSE LET shorter == SeqsUpTo(S, n - 1)
         IN  shorter \cup {Append(q, x) : q \in {r \in shorter : Len(r) = n - 1}, x \in S}

\* get_item_watch_time_stats' answer: an error, or the total_plays of each
\* stats entry and whether the response carries a tvdb guid.
StatsResponses ==
    {[ok |-> FALSE, stats |-> <<>>, tvdb |-> FALSE]}
    \cup {[ok |-> TRUE, stats |-> q, tvdb |-> b] :
             q \in SeqsUpTo({0, 1}, MaxStats), b \in BOOLEAN}

PlainStats == [ok |-> TRUE, stats |-> <<>>, tvdb |-> TRUE]
PlainMeta == "tvdb"

\* a loop that looks at the first stats entry only
FirstEntryPlays(stats) == Len(stats) > 0 /\ stats[1] > 0

\* the loop over stats: some entry with total_plays > 0
AnyPlays(stats) == \E i \in 1..Len(stats) : stats[i] > 0

\* TautulliClient.get_watch_stats: (has_watch_history, tvdb_id), the new
\* tautulli_cache and limiter, and what the call did.
get_watch_stats(cache, lim, t, show_id, resp, meta) ==
    IF IsFresh(cache[show_id], t)
    THEN [ret |-> cache[show_id].value, tvdb |-> 0, cache |-> cache, lim |-> lim,
          acquires |-> 0, calls |-> 0, path |-> "fresh", failed |-> FALSE]
    ELSE LET lim2 == acquire(lim, t)
             stale == cache[show_id].found
             pth == IF stale THEN "stale" ELSE "miss"
         IN  IF ~resp.ok
             THEN [ret |-> failure_result(cache[show_id]), tvdb |-> 0,
                   cache |-> cache, lim |-> lim2,
                   acquires |-> 1, calls |-> 1, path |-> pth, failed |-> TRUE]
             ELSE LET has == AnyPlays(resp.stats)
                      newc == [cache EXCEPT ![show_id] = Row(has, t)]
                  IN  IF resp.tvdb
                      THEN [ret |-> has, tvdb |-> TvdbOf(show_id), cache |-> newc,
                            lim |-> lim2, acquires |-> 1, calls |-> 1,
                            path |-> pth, failed |-> FALSE]
                      ELSE [ret |-> has, tvdb |-> fetch_metadata_tvdb(show_id, meta),
                            cache |-> newc, lim |-> acquire(lim2, t),
                            acquires |-> 2, calls |-> 2,
                            path |-> pth, failed |-> FALSE]

\* ---------------------------------------------------------- OverseerrClient
\* A request record of the snapshot: the show it is for (str(ratingKey), 0
\* for ""), and its createdAt: missing, unparsable ("bad") or a time ("ok").
\* The createdAt of a record without ratingKey is never read, so one such
\* record stands for all.  kind = "nontv" is a record without tvdbId and
\* seasons, which _extract_tv_requests drops.
TvRecords(t) ==
    {[show |-> 0, kind |-> "ok", at |-> t]}
    \cup {[show |-> s, kind |-> k, at |-> 0] : s \in Shows, k \in {"missing", "bad"}}
    \cup {[show |-> s, kind |-> "ok", at |-> a] :
             s \in Shows, a \in {t - ThresholdTicks, t}}

ServerRecords(t) == TvRecords(t) \cup {[show |-> 0, kind |-> "nontv", at |-> 0]}

FailedPage == [ok |-> FALSE, results |-> <<>>]

\* one page request: it fails (None) or carries results
PageOutcomes(t) ==
    {[ok |-> FALSE, results |-> <<>>]}
    \cup {[ok |-> TRUE, results |-> q] : q \in SeqsUpTo(ServerRecords(t), MaxPageLen)}

\* page p of the answer is requested by the loop of _fetch_all_requests
PageRequested(resp, p) ==
    \/ p = 1
    \/ resp.pageinfo /\ p <= resp.total /\ \A q \in 1..(p - 1) : resp.pages[q].ok

\* What the Overseerr server answers to one bulk fetch: which endpoint works,
\* whether page one carries pageInfo and the page count it reports, and the
\* outcome of each page request, for a server of at most `np` pages.  A
\* page that is never requested has no outcome: it is kept as FailedPage.
FetchResponses(t, np) ==
    {[endpoint |-> "none", pageinfo |-> FALSE, total |-> 1,
      pages |-> [p \in 1..np |-> FailedPage]]}
    \cup {r \in [endpoint : {"first", "second"}, pageinfo : BOOLEAN, total : 0..np,
                  pages : [1..np -> PageOutcomes(t)]] :
             /\ ~r.pageinfo => r.total = 1
             /\ \A p \in 1..np : ~PageRequested(r, p) => r.pages[p] = FailedPage}

PlainFetch(np) ==
    [endpoint |-> "first", pageinfo |-> TRUE, total |-> 1,
     pages |-> [p \in 1..np |-> [ok |-> TRUE, results |-> <<>>]]]

\* no bulk fetch has been followed on the wire
NoWire == [resp |-> PlainFetch(1), log |-> <<>>, made |-> FALSE]

\* the in-memory snapshot: requests_cache (None when ~valid) and its timestamp
NoSnapshot == [valid |-> FALSE, reqs |-> <<>>, ts |-> 0]

\* _extract_tv_requests
extract_tv_requests(results) == SelectSeq(results, LAMBDA r : r.kind # "nontv")

\* _is_request_recent on a parsable createdAt
is_request_recent(rec, t) ==
    IF rec.kind = "missing" THEN FALSE ELSE (t - rec.at) < ThresholdTicks

\* _find_working_endpoint: the number of test requests it makes
endpoint_calls(e) == IF e = "first" THEN 1 ELSE 2

\* the while loop of _fetch_all_requests from page `page` on:
\* [reqs, calls, broke] = the records collected, the page requests made and
\* whether a failed page request ended the loop.
\* data["pageInfo"]["pages"] of page p: every page of an answer that gives
\* `totals` carries its own count, otherwise the count is that of page one
PageInfoPages(resp, p) ==
    IF "totals" \in DOMAIN resp THEN resp.totals[p] ELSE resp.total

\* a loop that takes the page count from every page that carries one
total_pages_after_any_page(resp, page, total_pages) ==
    IF resp.pageinfo THEN PageInfoPages(resp, page) ELSE total_pages

\* overseerr_client.py 198-200: total_pages after page `page` was read
total_pages_after(resp, page, total_pages) ==
    IF page = 1 /\ resp.pageinfo THEN PageInfoPages(resp, page) ELSE total_pages

\* acc.log: the pages requested so far, in order
RECURSIVE fetch_pages(_, _, _, _)
fetch_pages(resp, page, total_pages, acc) ==
    IF page > total_pages
    THEN [reqs |-> acc.reqs, calls |-> acc.calls, broke |-> FALSE, log |-> acc.log]
    ELSE LET data == resp.pages[page]
         IN  IF ~data.ok
             THEN [reqs |-> acc.reqs, calls |-> acc.calls + 1, broke |-> TRUE,
                   log |-> Append(acc.log, page)]
             ELSE fetch_pages(resp, page + 1,
                      total_pages_after(resp, page, total_pages),
                      [reqs |-> acc.reqs \o extract_tv_requests(data.results),
                       calls |-> acc.calls + 1, log |-> Append(acc.log, page)])

\* the rows _update_database_cache collects: records with a show id and a createdAt
CacheUpdates(all_requests) ==
    SelectSeq(all_requests, LAMBDA r : r.show # 0 /\ r.kind # "missing")

\* executemany(REPLACE ...) over the collected rows, in order
RECURSIVE replace_many(_, _, _)
replace_many(cache, updates, t) ==
    IF updates = <<>> THEN cache
    ELSE replace_many(
             [cache EXCEPT ![Head(updates).show] = Row(is_request_recent(Head(updates), t), t)],
             Tail(updates), t)

\* _update_database_cache: an unparsable createdAt raises inside the try
\* before executemany is reached, and nothing is written.
update_database_cache(cache, all_requests, t) ==
    LET updates == CacheUpdates(all_requests)
    IN  IF \E i \in 1..Len(updates) : updates[i].kind = "bad"
        THEN cache
        ELSE replace_many(cache, updates, t)

\* the in-memory snapshot is still fresh
SnapshotFresh(snap, t) == snap.valid /\ (t - snap.ts) < RequestsCacheTtl

\* OverseerrClient._fetch_all_requests
fetch_all_requests(snap, cache, lim, t, force_refresh, resp) ==
    IF ~force_refresh /\ SnapshotFresh(snap, t)
    THEN [snap |-> snap, cache |-> cache, lim |-> lim, acquires |-> 0,
          calls |-> 0, fetched |-> FALSE, failed |-> FALSE, log |-> <<>>]
    ELSE LET lim2 == acquire(lim, t)
         IN  IF resp.endpoint = "none"
             THEN [snap |-> snap, cache |-> cache, lim |-> lim2, acquires |-> 1,
                   calls |-> 2, fetched |-> TRUE, failed |-> TRUE, log |-> <<>>]
             ELSE LET got == fetch_pages(resp, 1, 1,
                                 [reqs |-> <<>>, calls |-> 0, log |-> <<>>])
                  IN  [snap |-> [valid |-> TRUE, reqs |-> got.reqs, ts |-> t],
                       cache |-> update_database_cache(cache, got.reqs, t),
                       lim |-> lim2, acquires |-> 1,
                       calls |-> endpoint_calls(resp.endpoint) + got.calls,
                       fetched |-> TRUE, failed |-> got.broke, log |-> got.log]

\* a cache read that returns the opposite of the stored boolean
check_db_cache_negated(cache, show_id, t) ==
    [hit |-> IsFresh(cache[show_id], t), value |-> ~cache[show_id].value]

\* _check_db_cache: [hit, value]; hit = FALSE is the None it returns for a
\* missing or expired row
check_db_cache(cache, show_id, t) ==
    [hit |-> IsFresh(cache[show_id], t), value |-> cache[show_id].value]

\* the scan of _process_memory_cache from record i on: "recent", "none", or
\* "raise" when _parse_date meets an unparsable createdAt of this show
RECURSIVE scan_memory_cache(_, _, _, _)
scan_memory_cache(reqs, i, show_id, t) ==
    IF i > Len(reqs) THEN "none"
    ELSE IF reqs[i].show # show_id \/ reqs[i].kind = "missing"
         THEN scan_memory_cache(reqs, i + 1, show_id, t)
         ELSE IF reqs[i].kind = "bad" THEN "raise"
              ELSE IF is_request_recent(reqs[i], t) THEN "recent"
                   ELSE scan_memory_cache(reqs, i + 1, show_id, t)

\* OverseerrClient.is_recent_request
is_recent_request(snap, cache, lim, t, show_id, resp) ==
    LET first == check_db_cache(cache, show_id, t)
        pth == IF cache[show_id].found THEN "stale" ELSE "miss"
    IN  IF first.hit
        THEN [ret |-> first.value, snap |-> snap, cache |-> cache, lim |-> lim,
              acquires |-> 0, calls |-> 0, path |-> "fresh", source |-> "db",
              failed |-> FALSE]
        ELSE IF ~SnapshotFresh(snap, t)
             THEN LET f == fetch_all_requests(snap, cache, acquire(lim, t), t, FALSE, resp)
                      again == check_db_cache(f.cache, show_id, t)
                  IN  [ret |-> IF again.hit THEN again.value ELSE FALSE,
                       snap |-> f.snap, cache |-> f.cache, lim |-> f.lim,
                       acquires |-> 1 + f.acquires, calls |-> f.calls,
                       path |-> pth, source |-> "fetch", failed |-> f.failed]
             ELSE LET found == scan_memory_cache(snap.reqs, 1, show_id, t)
                  IN  IF found = "raise"
                      THEN [ret |-> failure_result(cache[show_id]), snap |-> snap,
                            cache |-> cache, lim |-> lim,
                            acquires |-> 0, calls |-> 0, path |-> pth,
                            source |-> "memory", failed |-> TRUE]
                      ELSE [ret |-> found = "recent", snap |-> snap,
                            cache |-> [cache EXCEPT ![show_id] = Row(found = "recent", t)],
                            lim |-> lim, acquires |-> 0, calls |-> 0, path |-> pth,
                            source |-> "memory", failed |-> FALSE]

\* -------------------------------------------------------------- SonarrClient
\* Sonarr's answers to unmonitor_series' two requests: the series lookup
\* fails or finds nothing, the PUT fails, or both succeed.
SonarrResponses == {"no_series", "put_failed", "ok"}

\* _extract_tvdb_id_from_guid: a show object's guid is kept as the id a
\* thetvdb guid carries, 0 for a guid without one (plex://show/...).
extract_tvdb_id_from_guid(guid) == guid

\* SonarrClient.unmonitor_series, with db.get_tvdb_id read from the shows row
unmonitor_series(row, lim, t, guid, resp) ==
    LET from_db == IF row.found THEN row.tvdb_id ELSE 0
        tvdb_id == IF from_db # 0 THEN from_db ELSE extract_tvdb_id_from_guid(guid)
    IN  IF tvdb_id = 0
        THEN [ret |-> FALSE, lim |-> lim, acquires |-> 0, calls |-> 0]
        ELSE IF resp = "no_series"
             THEN [ret |-> FALSE, lim |-> acquire(lim, t), acquires |-> 1, calls |-> 1]
             ELSE [ret |-> resp = "ok", lim |-> acquire(acquire(lim, t), t),
                   acquires |-> 2, calls |-> 2]

\* ----------------------------------------------------------- DatabaseManager
\* a row of the shows table; NULL columns are -1 (times), 0 (tvdb_id), "" (action)
NoShowRow == [found |-> FALSE, action |-> "", last_modified |-> -1,
              last_processed |-> -1, tvdb_id |-> 0]

\* DatabaseManager.save_tvdb_id: UPDATE, and INSERT OR IGNORE when no row matched
save_tvdb_id(row, tvdb_id) ==
    IF row.found THEN [row EXCEPT !.tvdb_id = tvdb_id]
    ELSE [NoShowRow EXCEPT !.found = TRUE, !.tvdb_id = tvdb_id]

\* DatabaseManager.record_action on the shows table: UPDATE ... WHERE id = ?
record_action(row, action, t) ==
    IF row.found THEN [row EXCEPT !.action = action, !.last_modified = t] ELSE row

\* DatabaseManager.record_action on the actions table: it executes no INSERT
record_action_log(log, show_id, action, t) == log

\* the REPLACE INTO shows of an eligible show (cli.py 135-140)
replace_eligible(tvdb_id, t) ==
    [found |-> TRUE, action |-> "eligible", last_modified |-> -1,
     last_processed |-> t, tvdb_id |-> tvdb_id]

\* ------------------------------------------------------------------- state
VARIABLES
    now,              \* time.time(), in ticks
    run,              \* number of main_cli runs started
    pc,               \* position of main_cli ("idle": no run in progress)
    args,             \* the parsed command line of the run
    shows,            \* plex.get_shows() of the run
    idx,              \* the loop index of `for show in shows` / `for show in eligible_shows`
    tvdb_temp,        \* the loop-local tvdb_temp (0: unset or None)
    action,           \* the action chosen for the eligible show being handled
    eligible_shows,   \* eligible_shows of the run
    skipped_shows,    \* skipped_shows of the run
    db_shows,         \* table shows
    db_actions,       \* table actions
    overseerr_cache,  \* table overseerr_cache (has_recent_request, last_checked)
    tautulli_cache,   \* table tautulli_cache
    plex_cache,       \* table plex_cache
    snapshot,         \* OverseerrClient.requests_cache and its timestamp
    limiter,          \* the RateLimiter of each client
    trace,            \* per show, the guards evaluated for it in this run, in order
    ops,              \* per show, the operations invoked on it in this run, in
                      \* order, each with its result and the action it belongs to
    last_op,          \* the last adapter query: what was asked and what it did
    budget,           \* how many more inputs of this run may differ from the plain one
    rate_limiter,     \* one RateLimiter object: rate, tokens, last and its lock
    clock,            \* time.time() as the limiter's callers read it
    thr,              \* per calling thread: its position in acquire() and its locals
    completed,        \* the times at which acquire() calls have returned, in order
    prev,             \* what the previous main_cli run was given and what it found
    durable,          \* the committed rows of overseerr_cache, followed where the
                      \* batch write is studied; overseerr_cache is what the
                      \* connection of the process reads
    library,          \* the ratingKeys of the shows in the Plex library section,
                      \* followed where delete_show is studied
    wire              \* the last bulk fetch as the server saw it: its answers and
                      \* the page requests received, in order; followed where the
                      \* loop of _fetch_all_requests is studied

db == <<db_shows, db_actions, overseerr_cache, tautulli_cache, plex_cache>>
loopvars == <<shows, idx, tvdb_temp, action, eligible_shows, skipped_shows>>
lvars == <<rate_limiter, clock, thr, completed>>
vars == <<now, run, pc, args, loopvars, db, snapshot, limiter, trace, ops, last_op,
          budget, lvars, prev, durable, library, wire>>

\* the inputs of S a step may draw: the plain one, and any other while budget is left
Inputs(S, plain) == IF budget > 0 THEN S ELSE {plain}
Cost(x, plain) == IF x = plain THEN 0 ELSE 1
BoolCost(b) == IF b THEN 1 ELSE 0

Services == {"plex", "overseerr", "tautulli", "sonarr"}
Actions == {"delete", "keep_first_season", "keep_first_episode", "keep"}

\* argparse (cli.py 31-39): the flags the prefetch and the loop over shows
\* read.  The arguments read at a single place are drawn there:
\* skip_confirmation and action at line 162.
ArgSets ==
    [skip_overseerr : BOOLEAN, skip_tautulli : BOOLEAN,
     ignore_first_season : BOOLEAN, ignore_first_episode : BOOLEAN,
     force_refresh : BOOLEAN, skip_confirmation : {TRUE}, action : {""}]

\* The libraries get_shows can list: the ratingKeys 1..n.  The other
\* attributes of a show object are each read once by main_cli
\* (has_only_first_season and has_only_first_episode at lines 76-77, guid by
\* the unmonitor call) and are drawn where they are read.
Libraries == {[i \in 1..n |-> [id |-> i]] : n \in 0..NumShows}

\* the structural flags get_shows can compute for a show (plex_client.py 59-82)
ShowFlags == [has_only_first_season : BOOLEAN, has_only_first_episode : BOOLEAN]

\* the guid of a show, as the TVDB id it carries: 0 for none
ShowGuids(s) == {0, TvdbOf(s)}

PlainArgs ==
    [skip_overseerr |-> FALSE, skip_tautulli |-> FALSE, ignore_first_season |-> FALSE,
     ignore_first_episode |-> FALSE, force_refresh |-> FALSE,
     skip_confirmation |-> TRUE, action |-> ""]
PlainFlags == [has_only_first_season |-> FALSE, has_only_first_episode |-> FALSE]
FlagsSet(a) ==
    BoolCost(a.skip_overseerr) + BoolCost(a.skip_tautulli)
    + BoolCost(a.ignore_first_season) + BoolCost(a.ignore_first_episode)
    + BoolCost(a.force_refresh)

\* before any run: no arguments, nothing found
NoPrev == [args |-> PlainArgs, shows |-> <<>>, eligible |-> {},
           trace |-> [s \in Shows |-> <<>>], snapshot |-> NoSnapshot, now |-> 0]

\* the ratingKeys of eligible_shows
EligibleIds(e) == {e[i].id : i \in 1..Len(e)}

NoOp == [op |-> "", show |-> 0, ret |-> FALSE, path |-> "", acquires |-> 0,
         calls |-> 0, failed |-> FALSE, plays |-> 0, flip |-> 0]

\* what a query left in last_op; plays: the largest play count the source
\* reported in its answer (0 when it was not asked or did not answer); flip
\* changes with every query
OpRecord(name, show_id, r, plays) ==
    [op |-> name, show |-> show_id, ret |-> r.ret, path |-> r.path,
     acquires |-> r.acquires, calls |-> r.calls, failed |-> r.failed,
     plays |-> plays, flip |-> 1 - last_op.flip]

GuardEntry(name, r) ==
    [guard |-> name, ret |-> r.ret, failed |-> r.failed, path |-> r.path]

\* no thread is calling the limiter under study
LimiterIdle ==
    /\ rate_limiter = NewRateLimiter(LimiterRate, 0)
    /\ clock = 0
    /\ thr = [th \in Threads |-> IdleThread]
    /\ completed = <<>>

PipelineInit ==
    /\ now = 0
    /\ run = 0
    /\ pc = "idle"
    /\ args = PlainArgs
    /\ shows = <<>>
    /\ idx = 0
    /\ tvdb_temp = 0
    /\ action = ""
    /\ eligible_shows = <<>>
    /\ skipped_shows = [overseerr |-> 0, tautulli |-> 0, plex |-> 0]
    /\ db_shows = [s \in Shows |-> NoShowRow]
    /\ db_actions = <<>>
    /\ overseerr_cache = EmptyCache
    /\ tautulli_cache = EmptyCache
    /\ plex_cache = EmptyCache
    /\ snapshot = NoSnapshot
    /\ limiter = [v \in Services |-> NewLimiter(0)]
    /\ trace = [s \in Shows |-> <<>>]
    /\ ops = [s \in Shows |-> <<>>]
    /\ last_op = NoOp
    /\ budget = 0
    /\ prev = NoPrev
    /\ durable = EmptyCache
    /\ library = {}
    /\ wire = NoWire

Init == PipelineInit /\ LimiterIdle

\* ---------------------------------------------------------------- main_cli
\* the clock advances between any two steps of a run
Tick ==
    /\ pc \notin {"idle", "aborted"}
    /\ now < MaxRunTime
    /\ budget > 0
    /\ now' = now + 1
    /\ budget' = budget - 1
    /\ UNCHANGED <<run, pc, args, loopvars, db, snapshot, limiter, trace, ops, last_op>>
    /\ UNCHANGED <<lvars, prev, durable, library, wire>>

\* main(): a new process parses its arguments and constructs the four
\* clients; `avail` inputs of the run may differ from the plain one
NewProcess(avail) ==
    /\ run' = run + 1
    /\ args' \in {a \in ArgSets : FlagsSet(a) <= avail}
    /\ budget' = avail - FlagsSet(args')
    /\ snapshot' = NoSnapshot
    /\ limiter' = [v \in Services |-> NewLimiter(now)]
    /\ shows' = <<>>
    /\ idx' = 0
    /\ tvdb_temp' = 0
    /\ action' = ""
    /\ eligible_shows' = <<>>
    /\ skipped_shows' = [overseerr |-> 0, tautulli |-> 0, plex |-> 0]
    /\ trace' = [s \in Shows |-> <<>>]
    /\ ops' = [s \in Shows |-> <<>>]
    /\ last_op' = NoOp
    /\ pc' = "prefetch"
    /\ prev' = [args |-> args, shows |-> shows,
                eligible |-> EligibleIds(eligible_shows), trace |-> trace,
                snapshot |-> snapshot, now |-> now]
    /\ UNCHANGED <<now, db>>
    /\ UNCHANGED <<lvars, durable, library, wire>>

StartRun ==
    /\ pc = "idle"
    /\ run < MaxRuns
    /\ NewProcess(MaxDeviations)

\* cli.py 54-60: prefetch of the Overseerr requests
Prefetch ==
    /\ pc = "prefetch"
    /\ pc' = "get_shows"
    /\ IF args.skip_overseerr
       THEN UNCHANGED <<snapshot, overseerr_cache, limiter, budget>>
       ELSE \E resp \in Inputs(FetchResponses(now, MaxPages), PlainFetch(MaxPages)) :
               LET f == fetch_all_requests(snapshot, overseerr_cache,
                            limiter["overseerr"], now, args.force_refresh, resp)
               IN  /\ budget' = budget - Cost(resp, PlainFetch(MaxPages))
                   /\ snapshot' = f.snap
                   /\ overseerr_cache' = f.cache
                   /\ limiter' = [limiter EXCEPT !["overseerr"] = f.lim]
    /\ UNCHANGED <<now, run, args, loopvars, db_shows, db_actions, tautulli_cache,
                   plex_cache, trace, ops, last_op>>
    /\ UNCHANGED <<lvars, prev, durable, library, wire>>

\* a loop that leaves out the last show of the list
next_show_but_last(i, n) == IF i + 1 < n THEN "structural" ELSE "commit"

\* where the loop over shows goes after the show at index i: the next show,
\* or line 141 when the list is exhausted
next_show(i, n) == IF i < n THEN "structural" ELSE "commit"

\* an enumeration that returns the shows collected before the exception
get_shows_partial(lib, ok) == lib

\* PlexClient.get_shows: the result list, or [] from the except handler
\* (plex_client.py 101-103) when section() or all() raised
get_shows(lib, ok) == IF ok THEN lib ELSE <<>>

\* shows = plex.get_shows() (cli.py 68); last_op keeps whether it failed
GetShows ==
    /\ pc = "get_shows"
    /\ \E lib \in Libraries, ok \in Inputs(BOOLEAN, TRUE) :
          /\ shows' = get_shows(lib, ok)
          /\ pc' = next_show(0, Len(shows'))
          /\ budget' = budget - Cost(ok, TRUE)
          /\ last_op' = [NoOp EXCEPT !.op = "get_shows", !.failed = ~ok]
    /\ idx' = 1
    /\ limiter' = [limiter EXCEPT !["plex"] = acquire(@, now)]
    /\ UNCHANGED <<now, run, args, tvdb_temp, action, eligible_shows, skipped_shows,
                   db, snapshot, trace, ops>>
    /\ UNCHANGED <<lvars, prev, durable, library, wire>>

\* a guard chain that declares a show eligible without asking Plex
next_guard_without_plex(stage) ==
    CASE stage = "structural" -> "overseerr"
      [] stage = "overseerr" -> "tautulli"
      [] OTHER -> "eligible"

\* the guard chain of the loop body (cli.py 79-107), in the order of the code
next_guard(stage) ==
    CASE stage = "structural" -> "overseerr"
      [] stage = "overseerr" -> "tautulli"
      [] stage = "tautulli" -> "plex"
      [] OTHER -> "eligible"

\* a loop body without `continue`: a rejecting guard falls through
after_guard_falls_through(stage, rejected) == next_guard(stage)

\* `continue` on a rejecting guard, else fall through to the next guard
after_guard(stage, rejected) == IF rejected THEN "continue" ELSE next_guard(stage)

\* pc and idx after the step of stage `target` ("continue": this show is done)
GoTo(target) ==
    IF target = "continue"
    THEN /\ pc' = next_show(idx, Len(shows))
         /\ idx' = idx + 1
    ELSE /\ pc' = target
         /\ idx' = idx

\* An exception that leaves an adapter's query is caught nowhere: not in the
\* loop body (cli.py 72-140), not in main_cli, not in main().  The process
\* ends with the traceback, at the show at idx.
Raise ==
    /\ pc' = "aborted"
    /\ idx' = idx

\* a loop body whose first-episode guard logs but does not `continue`
structural_continue_season_only(season, episode) == season

\* cli.py 80-87: either structural guard ends the iteration with `continue`
structural_continue(season, episode) == season \/ episode

\* cli.py 75-87: the two structural guards
GuardStructural ==
    /\ pc = "structural"
    /\ \E flags \in Inputs(ShowFlags, PlainFlags) :
       LET show == shows[idx]
           season == args.ignore_first_season /\ flags.has_only_first_season
           episode == args.ignore_first_episode /\ flags.has_only_first_episode
           e1 == [guard |-> "first_season", ret |-> season, failed |-> FALSE, path |-> ""]
           e2 == [guard |-> "first_episode", ret |-> episode, failed |-> FALSE, path |-> ""]
       IN  /\ trace' = [trace EXCEPT ![show.id] =
                           IF season THEN @ \o <<e1>> ELSE @ \o <<e1, e2>>]
           /\ GoTo(after_guard("structural", structural_continue(season, episode)))
           /\ budget' = budget - Cost(flags, PlainFlags)
    /\ UNCHANGED <<now, run, args, shows, tvdb_temp, action, eligible_shows,
                   skipped_shows, db, snapshot, limiter, ops, last_op>>
    /\ UNCHANGED <<lvars, prev, durable, library, wire>>

\* cli.py 90-93: the recent-request guard
GuardOverseerr ==
    /\ pc = "overseerr"
    /\ LET show == shows[idx]
           asks == ~check_db_cache(overseerr_cache, show.id, now).hit
                   /\ ~SnapshotFresh(snapshot, now)
       IN  IF args.skip_overseerr
           THEN /\ GoTo(next_guard("overseerr"))
                /\ UNCHANGED <<snapshot, overseerr_cache, limiter, trace,
                               skipped_shows, budget>>
           ELSE \E resp \in IF asks
                             THEN Inputs(FetchResponses(now, MaxPages),
                                         PlainFetch(MaxPages))
                             ELSE {PlainFetch(MaxPages)},
                   wellformed \in IF asks THEN Inputs(BOOLEAN, TRUE) ELSE {TRUE} :
                   LET r == is_recent_request(snapshot, overseerr_cache,
                                limiter["overseerr"], now, show.id, resp)
                   IN  IF ~wellformed
                       THEN \* page one carries a pageInfo without "pages":
                            \* KeyError at overseerr_client.py 201, outside
                            \* every try, after the two acquire() calls
                            /\ resp = PlainFetch(MaxPages)
                            /\ budget' = budget - 1
                            /\ limiter' = [limiter EXCEPT !["overseerr"] =
                                               acquire(acquire(@, now), now)]
                            /\ Raise
                            /\ UNCHANGED <<snapshot, overseerr_cache, trace,
                                           skipped_shows>>
                       ELSE
                       /\ budget' = budget - Cost(resp, PlainFetch(MaxPages))
                       /\ snapshot' = r.snap
                       /\ overseerr_cache' = r.cache
                       /\ limiter' = [limiter EXCEPT !["overseerr"] = r.lim]
                       /\ trace' = [trace EXCEPT ![show.id] =
                                       Append(@, GuardEntry("overseerr", r))]
                       /\ skipped_shows' = IF r.ret
                                           THEN [skipped_shows EXCEPT !.overseerr = @ + 1]
                                           ELSE skipped_shows
                       /\ GoTo(after_guard("overseerr", r.ret))
    /\ UNCHANGED <<now, run, args, shows, tvdb_temp, action, eligible_shows,
                   db_shows, db_actions, tautulli_cache, plex_cache, ops, last_op>>
    /\ UNCHANGED <<lvars, prev, durable, library, wire>>

\* cli.py 96-102: the watch-stats guard
\* an assignment that keeps the old id when the call returns None
assigned_tvdb_temp_sticky(old, returned) == IF returned # 0 THEN returned ELSE old

\* cli.py 97: `has_watch_history, tvdb_temp = tautulli.get_watch_stats(...)`
\* binds tvdb_temp to what the call returned, None included
assigned_tvdb_temp(old, returned) == returned

GuardTautulli ==
    /\ pc = "tautulli"
    /\ LET show == shows[idx]
           asks == ~IsFresh(tautulli_cache[show.id], now)
       IN  IF args.skip_tautulli
           THEN /\ GoTo(next_guard("tautulli"))
                /\ UNCHANGED <<tautulli_cache, limiter, trace, skipped_shows,
                               tvdb_temp, budget>>
           ELSE \E resp \in IF asks THEN Inputs(StatsResponses, PlainStats)
                             ELSE {PlainStats} :
                \E meta \in IF asks /\ resp.ok /\ ~resp.tvdb
                             THEN Inputs(MetaResponses, PlainMeta) ELSE {PlainMeta} :
                   LET r == get_watch_stats(tautulli_cache, limiter["tautulli"], now,
                                show.id, resp, meta)
                       cost == Cost(resp, PlainStats) + Cost(meta, PlainMeta)
                   IN  /\ cost <= budget
                       /\ budget' = budget - cost
                       /\ tautulli_cache' = r.cache
                       /\ limiter' = [limiter EXCEPT !["tautulli"] = r.lim]
                       /\ tvdb_temp' = assigned_tvdb_temp(tvdb_temp, r.tvdb)
                       /\ trace' = [trace EXCEPT ![show.id] =
                                       Append(@, GuardEntry("tautulli", r))]
                       /\ skipped_shows' = IF r.ret
                                           THEN [skipped_shows EXCEPT !.tautulli = @ + 1]
                                           ELSE skipped_shows
                       /\ GoTo(after_guard("tautulli", r.ret))
    /\ UNCHANGED <<now, run, args, shows, action, eligible_shows, db_shows, db_actions,
                   overseerr_cache, plex_cache, snapshot, ops, last_op>>
    /\ UNCHANGED <<lvars, prev, durable, library, wire>>

\* cli.py 104-107: the Plex watch-history guard
GuardPlex ==
    /\ pc = "plex"
    /\ LET show == shows[idx]
           asks == ~IsFresh(plex_cache[show.id], now)
       IN  \E resp \in IF asks THEN Inputs(PlexResponses, PlainPlex) ELSE {PlainPlex},
              read \in Inputs(BOOLEAN, TRUE) :
              LET r == has_watch_history(plex_cache, limiter["plex"], now, show.id, resp)
              IN  IF ~read
                  THEN \* the SELECT on plex_cache raises (plex_client.py
                       \* 131), before the try of line 148
                       /\ resp = PlainPlex
                       /\ budget' = budget - 1
                       /\ Raise
                       /\ UNCHANGED <<plex_cache, limiter, trace, skipped_shows>>
                  ELSE
                  /\ budget' = budget - Cost(resp, PlainPlex)
                  /\ plex_cache' = r.cache
                  /\ limiter' = [limiter EXCEPT !["plex"] = r.lim]
                  /\ trace' = [trace EXCEPT ![show.id] = Append(@, GuardEntry("plex", r))]
                  /\ skipped_shows' = IF r.ret
                                      THEN [skipped_shows EXCEPT !.plex = @ + 1]
                                      ELSE skipped_shows
                  /\ GoTo(after_guard("plex", r.ret))
    /\ UNCHANGED <<now, run, args, shows, tvdb_temp, action, eligible_shows, db_shows,
                   db_actions, overseerr_cache, tautulli_cache, snapshot, ops, last_op>>
    /\ UNCHANGED <<lvars, prev, durable, library, wire>>

\* a lookup that is made whether or not Tautulli is skipped
needs_lookup_always(tvdb_id, skip_tautulli) == tvdb_id = 0

\* cli.py 115: `if not tvdb_id and not args.skip_tautulli`
needs_lookup(tvdb_id, skip_tautulli) == tvdb_id = 0 /\ ~skip_tautulli

\* cli.py 109-140: the show is eligible.  tvdb_temp is used when set, else
\* one more get_metadata lookup is made unless Tautulli is skipped; the id is
\* saved, the show appended, and its shows row replaced by an 'eligible' row.
Eligible ==
    /\ pc = "eligible"
    /\ LET show == shows[idx]
           looks == needs_lookup(tvdb_temp, args.skip_tautulli)
       IN  \E meta \in IF looks THEN Inputs(MetaResponses, PlainMeta) ELSE {PlainMeta} :
              LET tvdb_id == IF tvdb_temp # 0 THEN tvdb_temp
                             ELSE IF looks THEN fetch_metadata_tvdb(show.id, meta)
                             ELSE 0
                  saved == IF tvdb_id # 0 THEN save_tvdb_id(db_shows[show.id], tvdb_id)
                           ELSE db_shows[show.id]
              IN  /\ budget' = budget - Cost(meta, PlainMeta)
                  /\ limiter' = IF looks
                                THEN [limiter EXCEPT !["tautulli"] = acquire(@, now)]
                                ELSE limiter
                  /\ eligible_shows' = Append(eligible_shows,
                         [id |-> show.id, tvdb_id |-> tvdb_id])
                  /\ db_shows' = [[db_shows EXCEPT ![show.id] = saved]
                                     EXCEPT ![show.id] = replace_eligible(tvdb_id, now)]
                  /\ trace' = [trace EXCEPT ![show.id] =
                                  Append(@, [guard |-> "eligible", ret |-> FALSE,
                                             failed |-> FALSE,
                                             path |-> IF looks THEN "lookup" ELSE ""])]
    /\ GoTo("continue")
    /\ UNCHANGED <<now, run, args, shows, tvdb_temp, action, skipped_shows, db_actions,
                   overseerr_cache, tautulli_cache, plex_cache, snapshot, ops, last_op>>
    /\ UNCHANGED <<lvars, prev, durable, library, wire>>

\* cli.py 141: db.conn.commit() after the loop
Commit ==
    /\ pc = "commit"
    /\ pc' = "report"
    /\ UNCHANGED <<now, run, args, loopvars, db, snapshot, limiter, trace, ops, last_op,
                   budget>>
    /\ UNCHANGED <<lvars, prev, durable, library, wire>>

\* cli.py 144-165 and 193: the report; with eligible shows, the mode of the
\* action loop is read from --skip-confirmation and --action
Report ==
    /\ pc = "report"
    /\ IF Len(eligible_shows) = 0
       THEN /\ pc' = "idle"
            /\ UNCHANGED <<args, idx, budget>>
       ELSE /\ \E sc \in Inputs(BOOLEAN, TRUE), a \in Inputs(Actions \cup {""}, "") :
                  /\ Cost(sc, TRUE) + Cost(a, "") <= budget
                  /\ budget' = budget - (Cost(sc, TRUE) + Cost(a, ""))
                  /\ args' = [args EXCEPT !.skip_confirmation = sc, !.action = a]
            /\ idx' = 1
            /\ pc' = "act_choose"
    /\ UNCHANGED <<now, run, shows, tvdb_temp, action, eligible_shows, skipped_shows,
                   db, snapshot, limiter, trace, ops, last_op>>
    /\ UNCHANGED <<lvars, prev, durable, library, wire>>

\* a dispatch that trims to the first episode when asked for the first season
inventory_op_wrong_trim(a) ==
    CASE a = "delete" -> "delete_show"
      [] a = "keep_first_season" -> "keep_first_episode"
      [] a = "keep_first_episode" -> "keep_first_episode"
      [] OTHER -> ""

\* the Plex operation of a disposition ("" for keep: none)
inventory_op(a) ==
    CASE a = "delete" -> "delete_show"
      [] a = "keep_first_season" -> "keep_first_season"
      [] a = "keep_first_episode" -> "keep_first_episode"
      [] OTHER -> ""

\* the first step of the branch of `action` (cli.py 167-189, 203-229)
first_step(a) == IF inventory_op(a) = "" THEN "act_record" ELSE "act_inventory"

\* a branch that unmonitors only after a successful Plex operation
after_inventory_if_ok(ok) == IF ok THEN "act_unmonitor" ELSE "act_record"

\* what follows the Plex operation, whatever it returned: sonarr.unmonitor_series
after_inventory(ok) == "act_unmonitor"

\* a default that deletes when no action is configured
default_action_delete(a) == IF a = "" THEN "delete" ELSE a

\* non-interactive: args.action or 'keep'
default_action(a) == IF a = "" THEN "keep" ELSE a

\* cli.py 164 / 202-228: the action of the eligible show at idx: the default
\* action, or the choice typed at the prompt
ActChoose ==
    /\ pc = "act_choose"
    /\ \E choice \in IF args.skip_confirmation THEN {"keep"}
                      ELSE Inputs(Actions, "keep") :
          /\ action' = IF args.skip_confirmation THEN default_action(args.action)
                       ELSE choice
          /\ pc' = first_step(action')
          /\ budget' = budget - Cost(choice, "keep")
    /\ UNCHANGED <<now, run, args, shows, idx, tvdb_temp, eligible_shows, skipped_shows,
                   db, snapshot, limiter, trace, ops, last_op>>
    /\ UNCHANGED <<lvars, prev, durable, library, wire>>

\* plex.delete_show / keep_first_season / keep_first_episode: one token, and
\* True or False (show not found, or an exception)
ActInventory ==
    /\ pc = "act_inventory"
    /\ \E ok \in Inputs(BOOLEAN, TRUE) :
          /\ ops' = [ops EXCEPT ![eligible_shows[idx].id] =
                        Append(@, [op |-> inventory_op(action), ok |-> ok,
                                   action |-> action])]
          /\ pc' = after_inventory(ok)
          /\ budget' = budget - Cost(ok, TRUE)
    /\ limiter' = [limiter EXCEPT !["plex"] = acquire(@, now)]
    /\ UNCHANGED <<now, run, args, loopvars, db, snapshot, trace, last_op>>
    /\ UNCHANGED <<lvars, prev, durable, library, wire>>

\* sonarr.unmonitor_series(show['id'], show.get('guid'))
ActUnmonitor ==
    /\ pc = "act_unmonitor"
    /\ LET show == eligible_shows[idx]
       IN  \E resp \in Inputs(SonarrResponses, "ok"),
              guid \in Inputs(ShowGuids(show.id), 0) :
              LET r == unmonitor_series(db_shows[show.id], limiter["sonarr"], now,
                           guid, resp)
              IN  /\ Cost(resp, "ok") + Cost(guid, 0) <= budget
                  /\ budget' = budget - (Cost(resp, "ok") + Cost(guid, 0))
                  /\ limiter' = [limiter EXCEPT !["sonarr"] = r.lim]
                  /\ ops' = [ops EXCEPT ![show.id] =
                                Append(@, [op |-> "unmonitor_series", ok |-> r.ret,
                                           action |-> action])]
    /\ pc' = "act_record"
    /\ UNCHANGED <<now, run, args, loopvars, db, snapshot, trace, last_op>>
    /\ UNCHANGED <<lvars, prev, durable, library, wire>>

\* db.record_action(show['id'], action), then the next eligible show
ActRecord ==
    /\ pc = "act_record"
    /\ LET show == eligible_shows[idx]
       IN  /\ db_shows' = [db_shows EXCEPT ![show.id] = record_action(@, action, now)]
           /\ db_actions' = record_action_log(db_actions, show.id, action, now)
           /\ ops' = [ops EXCEPT ![show.id] =
                         Append(@, [op |-> "record_action", ok |-> TRUE,
                                    action |-> action])]
    /\ IF idx < Len(eligible_shows)
       THEN /\ idx' = idx + 1
            /\ pc' = "act_choose"
       ELSE /\ idx' = idx
            /\ pc' = "idle"
    /\ UNCHANGED <<now, run, args, shows, tvdb_temp, action, eligible_shows,
                   skipped_shows, overseerr_cache, tautulli_cache, plex_cache,
                   snapshot, limiter, trace, last_op, budget>>
    /\ UNCHANGED <<lvars, prev, durable, library, wire>>

Next ==
    \/ Tick
    \/ StartRun
    \/ Prefetch
    \/ GetShows
    \/ GuardStructural
    \/ GuardOverseerr
    \/ GuardTautulli
    \/ GuardPlex
    \/ Eligible
    \/ Commit
    \/ Report
    \/ ActChoose
    \/ ActInventory
    \/ ActUnmonitor
    \/ ActRecord

Spec == Init /\ [][Next]_vars

\* ------------------------------------------------------------------- reruns
\* main() is run again, as a new process over the database the earlier runs
\* left; the clock does not go back
StartRerun ==
    /\ pc = "idle"
    /\ run <= MaxReruns
    /\ NewProcess(IF run = 0 THEN RerunDeviations ELSE budget)

RerunNext ==
    \/ StartRerun
    \/ Tick
    \/ Prefetch
    \/ GetShows
    \/ GuardStructural
    \/ GuardOverseerr
    \/ GuardTautulli
    \/ GuardPlex
    \/ Eligible
    \/ Commit
    \/ Report
    \/ ActChoose
    \/ ActInventory
    \/ ActUnmonitor
    \/ ActRecord

RerunSpec == Init /\ [][RerunNext]_vars

\* ----------------------------------------- a run over rows of earlier runs
\* One run at time cache_ttl over a database in which earlier runs, at time
\* 0 or one tick ago, with whatever flags and answers, have left rows for
\* show 1 in any of the three caches; the other shows are new.
PriorRows ==
    {NoRow} \cup {Row(v, t) : v \in BOOLEAN, t \in {0, CacheTtlHours - 1}}

PriorCaches == {[EmptyCache EXCEPT ![1] = r] : r \in PriorRows}

PriorInit ==
    /\ now = CacheTtlHours
    /\ run = 0
    /\ pc = "idle"
    /\ args = PlainArgs
    /\ shows = <<>>
    /\ idx = 0
    /\ tvdb_temp = 0
    /\ action = ""
    /\ eligible_shows = <<>>
    /\ skipped_shows = [overseerr |-> 0, tautulli |-> 0, plex |-> 0]
    /\ db_shows = [s \in Shows |-> NoShowRow]
    /\ db_actions = <<>>
    /\ overseerr_cache \in PriorCaches
    /\ tautulli_cache \in PriorCaches
    /\ plex_cache \in PriorCaches
    /\ snapshot = NoSnapshot
    /\ limiter = [v \in Services |-> NewLimiter(CacheTtlHours)]
    /\ trace = [s \in Shows |-> <<>>]
    /\ ops = [s \in Shows |-> <<>>]
    /\ last_op = NoOp
    /\ budget = 0
    /\ prev = NoPrev
    /\ durable = EmptyCache
    /\ library = {}
    /\ wire = NoWire
    /\ LimiterIdle

StartOverPrior ==
    /\ pc = "idle"
    /\ run = 0
    /\ NewProcess(PriorDeviations)

PriorNext ==
    \/ StartOverPrior
    \/ Prefetch
    \/ GetShows
    \/ GuardStructural
    \/ GuardOverseerr
    \/ GuardTautulli
    \/ GuardPlex
    \/ Eligible
    \/ Commit
    \/ Report
    \/ ActChoose
    \/ ActInventory
    \/ ActUnmonitor
    \/ ActRecord

PriorSpec == PriorInit /\ [][PriorNext]_vars

\* ------------------------------------------------- the adapters on their own
\* One client, queried for any show at any time, over a database that keeps
\* its rows from query to query: pc names the client under study.
AdapterIdle ==
    /\ now = 0
    /\ run = 0
    /\ args = PlainArgs
    /\ shows = <<>>
    /\ idx = 0
    /\ tvdb_temp = 0
    /\ action = ""
    /\ eligible_shows = <<>>
    /\ skipped_shows = [overseerr |-> 0, tautulli |-> 0, plex |-> 0]
    /\ db_shows = [s \in Shows |-> NoShowRow]
    /\ db_actions = <<>>
    /\ overseerr_cache = EmptyCache
    /\ tautulli_cache = EmptyCache
    /\ plex_cache = EmptyCache
    /\ snapshot = NoSnapshot
    /\ limiter = [v \in Services |-> NewLimiter(0)]
    /\ trace = [s \in Shows |-> <<>>]
    /\ ops = [s \in Shows |-> <<>>]
    /\ last_op = NoOp
    /\ budget = 0
    /\ prev = NoPrev
    /\ durable = EmptyCache
    /\ LimiterIdle

AdapterInit ==
    /\ AdapterIdle
    /\ library = {}
    /\ wire = NoWire
    /\ pc \in {"query_overseerr", "query_tautulli", "query_plex"}

AdapterTick ==
    /\ pc \in {"query_overseerr", "query_tautulli", "query_plex"}
    /\ now < MaxTime
    /\ now' = now + 1
    /\ UNCHANGED <<run, pc, args, loopvars, db, snapshot, limiter, trace, ops, last_op,
                   budget>>
    /\ UNCHANGED <<lvars, prev, durable, library, wire>>

\* the largest total_plays of a stats answer
RECURSIVE MaxPlays(_)
MaxPlays(stats) ==
    IF stats = <<>> THEN 0 ELSE Max(Head(stats), MaxPlays(Tail(stats)))

\* plex.has_watch_history(show_id)
QueryHasWatchHistory ==
    /\ pc = "query_plex"
    /\ \E s \in Shows :
       \E resp \in IF IsFresh(plex_cache[s], now) THEN {PlainPlex} ELSE PlexResponses :
          LET r == has_watch_history(plex_cache, limiter["plex"], now, s, resp)
          IN  /\ plex_cache' = r.cache
              /\ limiter' = [limiter EXCEPT !["plex"] = r.lim]
              /\ last_op' = OpRecord("has_watch_history", s, r,
                                IF r.calls > 0 /\ resp.kind = "ok" THEN resp.history ELSE 0)
    /\ UNCHANGED <<now, run, pc, args, loopvars, db_shows, db_actions, overseerr_cache,
                   tautulli_cache, snapshot, trace, ops, budget>>
    /\ UNCHANGED <<lvars, prev, durable, library, wire>>

\* tautulli.get_watch_stats(show_id)
QueryGetWatchStats ==
    /\ pc = "query_tautulli"
    /\ \E s \in Shows :
       \E resp \in IF IsFresh(tautulli_cache[s], now) THEN {PlainStats} ELSE StatsResponses :
       \E meta \in IF ~IsFresh(tautulli_cache[s], now) /\ resp.ok /\ ~resp.tvdb
                    THEN MetaResponses ELSE {PlainMeta} :
          LET r == get_watch_stats(tautulli_cache, limiter["tautulli"], now, s, resp, meta)
          IN  /\ tautulli_cache' = r.cache
              /\ limiter' = [limiter EXCEPT !["tautulli"] = r.lim]
              /\ last_op' = OpRecord("get_watch_stats", s, r,
                                IF r.calls > 0 /\ resp.ok THEN MaxPlays(resp.stats) ELSE 0)
    /\ UNCHANGED <<now, run, pc, args, loopvars, db_shows, db_actions, overseerr_cache,
                   plex_cache, snapshot, trace, ops, budget>>
    /\ UNCHANGED <<lvars, prev, durable, library, wire>>

\* overseerr.is_recent_request(show_id)
QueryIsRecentRequest ==
    /\ pc = "query_overseerr"
    /\ \E s \in Shows :
       \E resp \in IF ~check_db_cache(overseerr_cache, s, now).hit
                       /\ ~SnapshotFresh(snapshot, now)
                    THEN FetchResponses(now, MaxPages) ELSE {PlainFetch(MaxPages)} :
          \E r \in {is_recent_request(snapshot, overseerr_cache, limiter["overseerr"],
                       now, s, resp)} :
              /\ snapshot' = r.snap
              /\ overseerr_cache' = r.cache
              /\ limiter' = [limiter EXCEPT !["overseerr"] = r.lim]
              /\ last_op' = OpRecord("is_recent_request", s, r, 0)
    /\ UNCHANGED <<now, run, pc, args, loopvars, db_shows, db_actions, tautulli_cache,
                   plex_cache, trace, ops, budget>>
    /\ UNCHANGED <<lvars, prev, durable, library, wire>>

\* overseerr._fetch_all_requests(force_refresh)
QueryFetchAllRequests ==
    /\ pc = "query_overseerr"
    /\ \E force_refresh \in BOOLEAN :
       \E resp \in IF force_refresh \/ ~SnapshotFresh(snapshot, now)
                    THEN FetchResponses(now, MaxPages) ELSE {PlainFetch(MaxPages)} :
          \E f \in {fetch_all_requests(snapshot, overseerr_cache, limiter["overseerr"],
                       now, force_refresh, resp)} :
              /\ snapshot' = f.snap
              /\ overseerr_cache' = f.cache
              /\ limiter' = [limiter EXCEPT !["overseerr"] = f.lim]
              /\ last_op' = [op |-> "fetch_all_requests", show |-> 0, ret |-> FALSE,
                             path |-> IF f.fetched THEN "fetch" ELSE "fresh",
                             acquires |-> f.acquires, calls |-> f.calls,
                             failed |-> f.failed, plays |-> 0,
                             flip |-> 1 - last_op.flip]
    /\ UNCHANGED <<now, run, pc, args, loopvars, db_shows, db_actions, tautulli_cache,
                   plex_cache, trace, ops, budget>>
    /\ UNCHANGED <<lvars, prev, durable, library, wire>>

AdapterNext ==
    \/ AdapterTick
    \/ QueryHasWatchHistory
    \/ QueryGetWatchStats
    \/ QueryIsRecentRequest
    \/ QueryFetchAllRequests

AdapterSpec == AdapterInit /\ [][AdapterNext]_vars

\* ------------------------------------ the adapters, the server paginating
\* The watch adapters as above; the request client is queried twice, the
\* clock advancing in between, against a server that answers a bulk fetch in
\* up to MaxFetchPages pages, any of which may fail.
PagedInit ==
    /\ AdapterIdle
    /\ library = {}
    /\ wire = NoWire
    /\ pc \in {"paged_first", "query_tautulli", "query_plex"}

PagedTick ==
    /\ pc \in {"paged_first", "paged_second"}
    /\ now < MaxTime
    /\ now' = now + 1
    /\ UNCHANGED <<run, pc, args, loopvars, db, snapshot, limiter, trace, ops, last_op,
                   budget>>
    /\ UNCHANGED <<lvars, prev, durable, library, wire>>

\* overseerr.is_recent_request(show_id)
PagedQuery ==
    /\ pc \in {"paged_first", "paged_second"}
    /\ pc' = IF pc = "paged_first" THEN "paged_second" ELSE "paged_done"
    /\ \E s \in Shows :
       \E resp \in IF ~check_db_cache(overseerr_cache, s, now).hit
                       /\ ~SnapshotFresh(snapshot, now)
                    THEN FetchResponses(now, MaxFetchPages)
                    ELSE {PlainFetch(MaxFetchPages)} :
          \E r \in {is_recent_request(snapshot, overseerr_cache, limiter["overseerr"],
                       now, s, resp)} :
              /\ snapshot' = r.snap
              /\ overseerr_cache' = r.cache
              /\ limiter' = [limiter EXCEPT !["overseerr"] = r.lim]
              /\ last_op' = OpRecord("is_recent_request", s, r, 0)
    /\ UNCHANGED <<now, run, args, loopvars, db_shows, db_actions, tautulli_cache,
                   plex_cache, trace, ops, budget>>
    /\ UNCHANGED <<lvars, prev, durable, library, wire>>

PagedNext ==
    \/ AdapterTick
    \/ QueryHasWatchHistory
    \/ QueryGetWatchStats
    \/ PagedTick
    \/ PagedQuery

PagedSpec == PagedInit /\ [][PagedNext]_vars

\* ------------------------------------- the request adapter on longer lists
\* One OverseerrClient: the prefetch of main_cli, then is_recent_request for
\* one show, the clock advancing in between; the server's list fits on one
\* page and holds up to MaxRequests records.
RecentResponses(t) ==
    {[endpoint |-> "none", pageinfo |-> FALSE, total |-> 1,
      pages |-> <<FailedPage>>]}
    \cup {[endpoint |-> "first", pageinfo |-> TRUE, total |-> 1,
           pages |-> <<[ok |-> TRUE, results |-> q]>>] :
             q \in SeqsUpTo(ServerRecords(t), MaxRequests)}

RecentInit ==
    /\ AdapterInit
    /\ pc = "query_overseerr"

RecentTick ==
    /\ pc \in {"recent_query"}
    /\ now < MaxTime
    /\ now' = now + 1
    /\ UNCHANGED <<run, pc, args, loopvars, db, snapshot, limiter, trace, ops, last_op,
                   budget>>
    /\ UNCHANGED <<lvars, prev, durable, library, wire>>

\* overseerr._fetch_all_requests(force_refresh=False) of a new client
RecentPrefetch ==
    /\ pc = "query_overseerr"
    /\ pc' = "recent_query"
    /\ \E resp \in RecentResponses(now) :
       \E f \in {fetch_all_requests(snapshot, overseerr_cache, limiter["overseerr"],
                    now, FALSE, resp)} :
           /\ snapshot' = f.snap
           /\ overseerr_cache' = f.cache
           /\ limiter' = [limiter EXCEPT !["overseerr"] = f.lim]
    /\ UNCHANGED <<now, run, args, loopvars, db_shows, db_actions, tautulli_cache,
                   plex_cache, trace, ops, last_op, budget>>
    /\ UNCHANGED <<lvars, prev, durable, library, wire>>

\* overseerr.is_recent_request(show_id)
RecentQuery ==
    /\ pc = "recent_query"
    /\ pc' = "recent_done"
    /\ \E s \in Shows :
       \E resp \in IF ~check_db_cache(overseerr_cache, s, now).hit
                       /\ ~SnapshotFresh(snapshot, now)
                    THEN RecentResponses(now) ELSE {PlainFetch(1)} :
          \E r \in {is_recent_request(snapshot, overseerr_cache, limiter["overseerr"],
                       now, s, resp)} :
              /\ snapshot' = r.snap
              /\ overseerr_cache' = r.cache
              /\ limiter' = [limiter EXCEPT !["overseerr"] = r.lim]
              /\ last_op' = OpRecord("is_recent_request", s, r, 0)
    /\ UNCHANGED <<now, run, args, loopvars, db_shows, db_actions, tautulli_cache,
                   plex_cache, trace, ops, budget>>
    /\ UNCHANGED <<lvars, prev, durable, library, wire>>

RecentNext ==
    \/ RecentTick
    \/ RecentPrefetch
    \/ RecentQuery

RecentSpec == RecentInit /\ [][RecentNext]_vars

\* ------------------------------------------------ the batch write on its own
\* _update_database_cache on the connection of the process, which is in
\* sqlite3's default mode: the first REPLACE opens a transaction, and only
\* commit() ends it.  fail_at is the first row that executemany cannot
\* execute (its media.name cannot be bound), 0 when every row goes through.
\* The result: the rows the connection reads afterwards, whether line 153
\* committed, and the value returned.
executemany_cache(cache, all_requests, t, fail_at) ==
    LET updates == CacheUpdates(all_requests)
    IN  IF \E i \in 1..Len(updates) : updates[i].kind = "bad"
        THEN [view |-> cache, commit |-> FALSE, ret |-> FALSE]
        ELSE IF updates = <<>>
             THEN [view |-> cache, commit |-> FALSE, ret |-> TRUE]
             ELSE IF fail_at = 0
                  THEN [view |-> replace_many(cache, updates, t), commit |-> TRUE,
                        ret |-> TRUE]
                  ELSE [view |-> replace_many(cache, SubSeq(updates, 1, fail_at - 1), t),
                        commit |-> FALSE, ret |-> FALSE]

BatchInit ==
    /\ AdapterIdle
    /\ library = {}
    /\ wire = NoWire
    /\ pc = "batch"

BatchTick ==
    /\ pc = "batch"
    /\ now < MaxTime
    /\ now' = now + 1
    /\ UNCHANGED <<run, pc, args, loopvars, db, snapshot, limiter, trace, ops, last_op,
                   budget>>
    /\ UNCHANGED <<lvars, prev, durable, library, wire>>

\* overseerr_client.py 212-217: the fetched list becomes the snapshot and is
\* written to overseerr_cache in one batch
BatchWrite ==
    /\ pc = "batch"
    /\ pc' = "batch_done"
    /\ \E reqs \in SeqsUpTo(TvRecords(now), MaxRequests) :
       \E fail_at \in 0..Len(CacheUpdates(reqs)) :
          LET r == executemany_cache(overseerr_cache, reqs, now, fail_at)
          IN  /\ snapshot' = [valid |-> TRUE, reqs |-> reqs, ts |-> now]
              /\ overseerr_cache' = r.view
              /\ durable' = IF r.commit THEN r.view ELSE durable
              /\ last_op' = [NoOp EXCEPT !.op = "update_database_cache",
                                         !.failed = ~r.ret]
    /\ UNCHANGED <<now, run, args, loopvars, db_shows, db_actions, tautulli_cache,
                   plex_cache, limiter, trace, ops, budget>>
    /\ UNCHANGED <<lvars, prev, library, wire>>

\* the next self.db.conn.commit() of any operation on the connection
\* (plex_client.py 166, tautulli_client.py 207, cli.py 141)
BatchLaterCommit ==
    /\ pc = "batch_done"
    /\ pc' = "batch_committed"
    /\ durable' = overseerr_cache
    /\ UNCHANGED <<now, run, args, loopvars, db, snapshot, limiter, trace, ops, last_op,
                   budget>>
    /\ UNCHANGED <<lvars, prev, library, wire>>

\* the process ends before any commit: what the open transaction wrote is lost
BatchExit ==
    /\ pc = "batch_done"
    /\ pc' = "batch_closed"
    /\ overseerr_cache' = durable
    /\ UNCHANGED <<now, run, args, loopvars, db_shows, db_actions, tautulli_cache,
                   plex_cache, snapshot, limiter, trace, ops, last_op, budget>>
    /\ UNCHANGED <<lvars, prev, durable, library, wire>>

BatchNext ==
    \/ BatchTick
    \/ BatchWrite
    \/ BatchLaterCommit
    \/ BatchExit

BatchSpec == BatchInit /\ [][BatchNext]_vars

\* -------------------------------------------------- delete_show on its own
\* A PlexClient over a library section of up to MaxKeys shows, asked twice
\* to delete a show, the clock advancing in between.
MaxKeys == 3

\* the ratingKeys the server gives its shows
RatingKeys == 1..MaxKeys

\* what a caller passes as show_id: a ratingKey as the int of plexapi or as
\* text (the tests pass '101'), n being the number it denotes
ShowIdArgs == [kind : {"int", "str"}, n : RatingKeys]

\* str(): an int and the text of its digits give the same string
str(k) == k.n

\* the server's part in delete_show: section().all() raises, show.delete()
\* raises and nothing is deleted, or both answer
DeleteResponses == {"list_error", "delete_error", "ok"}

\* a deletion that empties the section when the show is found
delete_show_all(lib, lim, t, show_id, resp) ==
    LET lim2 == acquire(lim, t)
        found == {s \in lib : str([kind |-> "int", n |-> s]) = str(show_id)}
    IN  IF resp = "list_error" \/ found = {} \/ resp = "delete_error"
        THEN [ret |-> FALSE, lib |-> lib, lim |-> lim2, acquires |-> 1,
              calls |-> 1, path |-> "none", failed |-> resp # "ok"]
        ELSE [ret |-> TRUE, lib |-> {}, lim |-> lim2, acquires |-> 1,
              calls |-> 2, path |-> "found", failed |-> FALSE]

\* PlexClient.delete_show: the returned bool, the library section afterwards,
\* the limiter, and what the call did
delete_show(lib, lim, t, show_id, resp) ==
    LET lim2 == acquire(lim, t)
        found == {s \in lib : str([kind |-> "int", n |-> s]) = str(show_id)}
    IN  IF resp = "list_error"
        THEN [ret |-> FALSE, lib |-> lib, lim |-> lim2, acquires |-> 1,
              calls |-> 1, path |-> "error", failed |-> TRUE]
        ELSE IF found = {}
             THEN [ret |-> FALSE, lib |-> lib, lim |-> lim2, acquires |-> 1,
                   calls |-> 1, path |-> "not_found", failed |-> FALSE]
             ELSE IF resp = "delete_error"
                  THEN [ret |-> FALSE, lib |-> lib, lim |-> lim2, acquires |-> 1,
                        calls |-> 2, path |-> "error", failed |-> TRUE]
                  ELSE [ret |-> TRUE, lib |-> lib \ found, lim |-> lim2,
                        acquires |-> 1, calls |-> 2, path |-> "found",
                        failed |-> FALSE]

DeleteInit ==
    /\ AdapterIdle
    /\ library \in SUBSET RatingKeys
    /\ wire = NoWire
    /\ pc = "delete_first"

DeleteTick ==
    /\ pc \in {"delete_first", "delete_second"}
    /\ now < MaxTime
    /\ now' = now + 1
    /\ UNCHANGED <<run, pc, args, loopvars, db, snapshot, limiter, trace, ops, last_op,
                   budget>>
    /\ UNCHANGED <<lvars, prev, durable, library, wire>>

\* plex.delete_show(show_id)
DeleteShow ==
    /\ pc \in {"delete_first", "delete_second"}
    /\ pc' = IF pc = "delete_first" THEN "delete_second" ELSE "delete_done"
    /\ \E show_id \in ShowIdArgs, resp \in DeleteResponses :
          LET r == delete_show(library, limiter["plex"], now, show_id, resp)
          IN  /\ library' = r.lib
              /\ limiter' = [limiter EXCEPT !["plex"] = r.lim]
              /\ last_op' = OpRecord("delete_show", show_id.n, r, 0)
    /\ UNCHANGED <<now, run, args, loopvars, db, snapshot, trace, ops, budget>>
    /\ UNCHANGED <<lvars, prev, durable, wire>>

DeleteNext ==
    \/ DeleteTick
    \/ DeleteShow

DeleteSpec == DeleteInit /\ [][DeleteNext]_vars

\* ------------------------------------------- the bulk fetch loop on its own
\* A new OverseerrClient makes one bulk fetch against a server of up to
\* MaxLoopPages pages, every page carrying its own pageInfo.pages.
MaxLoopPages == 3

\* the results of one page: nothing, a record that is not a TV request, or
\* a TV request of show 1 (recent) or of show 2 (old)
LoopResults(t) ==
    SeqsUpTo({[show |-> 0, kind |-> "nontv", at |-> 0],
              [show |-> 1, kind |-> "ok", at |-> t],
              [show |-> 2, kind |-> "ok", at |-> t - ThresholdTicks]}, 1)

LoopPageOutcomes(t) ==
    {FailedPage} \cup {[ok |-> TRUE, results |-> q] : q \in LoopResults(t)}

\* the server's answers to one bulk fetch, page by page
LoopResponses(t) ==
    [endpoint : {"none", "first"}, pageinfo : BOOLEAN,
     totals : [1..MaxLoopPages -> 0..MaxLoopPages],
     pages : [1..MaxLoopPages -> LoopPageOutcomes(t)]]

FetchInit ==
    /\ AdapterIdle
    /\ library = {}
    /\ wire = NoWire
    /\ pc = "fetch"

FetchTick ==
    /\ pc = "fetch"
    /\ now < MaxTime
    /\ now' = now + 1
    /\ UNCHANGED <<run, pc, args, loopvars, db, snapshot, limiter, trace, ops, last_op,
                   budget>>
    /\ UNCHANGED <<lvars, prev, durable, library, wire>>

\* overseerr._fetch_all_requests() of a new client (cli.py 58)
FetchAll ==
    /\ pc = "fetch"
    /\ pc' = "fetch_done"
    /\ \E resp \in LoopResponses(now) :
          LET f == fetch_all_requests(snapshot, overseerr_cache, limiter["overseerr"],
                                      now, FALSE, resp)
          IN  /\ snapshot' = f.snap
              /\ overseerr_cache' = f.cache
              /\ limiter' = [limiter EXCEPT !["overseerr"] = f.lim]
              /\ last_op' = [NoOp EXCEPT !.op = "fetch_all_requests",
                                         !.acquires = f.acquires, !.calls = f.calls,
                                         !.failed = f.failed]
              /\ wire' = [resp |-> resp, log |-> f.log, made |-> TRUE]
    /\ UNCHANGED <<now, run, args, loopvars, db_shows, db_actions, tautulli_cache,
                   plex_cache, trace, ops, budget>>
    /\ UNCHANGED <<lvars, prev, durable, library>>

FetchNext ==
    \/ FetchTick
    \/ FetchAll

FetchSpec == FetchInit /\ [][FetchNext]_vars

\* ---------------------------------------------------- the limiter on its own
\* One RateLimiter, of rate 0 or LimiterRate, and the threads that call its
\* acquire(), each up to MaxCalls times.
LimiterInit ==
    /\ PipelineInit
    /\ rate_limiter \in {NewRateLimiter(r, 0) : r \in Rates}
    /\ clock = 0
    /\ thr = [th \in Threads |-> IdleThread]
    /\ completed = <<>>

pipeline == <<now, run, pc, args, loopvars, db, snapshot, limiter, trace, ops, last_op,
              budget, prev, durable, library, wire>>

Sleeping(th) == thr[th].pc = "sleep"

\* time passes; past MaxClock only while a sleeper waits for its wake time
Advance ==
    /\ \/ clock < MaxClock
       \/ \E th \in Threads : Sleeping(th) /\ thr[th].wake > clock
    /\ clock' = clock + 1
    /\ UNCHANGED <<pipeline, rate_limiter, thr, completed>>

\* a thread calls acquire()
Call(th) ==
    /\ thr[th].pc = "idle"
    /\ thr[th].calls < MaxCalls
    /\ thr' = [thr EXCEPT ![th].pc = "with", ![th].calls = @ + 1]
    /\ UNCHANGED <<pipeline, rate_limiter, clock, completed>>

\* with self.lock:
Enter(th) ==
    /\ thr[th].pc = "with"
    /\ lock_free(rate_limiter)
    /\ rate_limiter' = [rate_limiter EXCEPT !.lock = th]
    /\ thr' = [thr EXCEPT ![th].pc = "refill",
                          ![th].entry = [tokens |-> rate_limiter.tokens,
                                         last |-> rate_limiter.last]]
    /\ UNCHANGED <<pipeline, clock, completed>>

\* now = time.time(); elapsed = now - self.last; self.tokens += ...
Refill(th) ==
    /\ thr[th].pc = "refill"
    /\ rate_limiter' = [rate_limiter EXCEPT
                           !.tokens = refill(rate_limiter, clock - rate_limiter.last)]
    /\ thr' = [thr EXCEPT ![th].pc = "cap", ![th].now = clock]
    /\ UNCHANGED <<pipeline, clock, completed>>

\* if self.tokens > self.rate: self.tokens = self.rate
Cap(th) ==
    /\ thr[th].pc = "cap"
    /\ rate_limiter' = [rate_limiter EXCEPT !.tokens = cap(rate_limiter)]
    /\ thr' = [thr EXCEPT ![th].pc = "branch"]
    /\ UNCHANGED <<pipeline, clock, completed>>

\* if self.tokens < 1: time.sleep(...) else: self.tokens -= 1.  With rate 0
\* the sleep time divides by zero: the exception leaves the with-block,
\* which releases the lock, and the call ends in ZeroDivisionError.
Branch(th) ==
    /\ thr[th].pc = "branch"
    /\ IF rate_limiter.tokens < TokenScale
       THEN IF rate_limiter.rate = 0
            THEN /\ thr' = [thr EXCEPT ![th].pc = "raised"]
                 /\ rate_limiter' = [rate_limiter EXCEPT !.lock = 0]
            ELSE /\ thr' = [thr EXCEPT ![th].pc = "sleep",
                                       ![th].wake = clock + sleep_time(rate_limiter)]
                 /\ UNCHANGED rate_limiter
       ELSE /\ rate_limiter' = [rate_limiter EXCEPT !.tokens = @ - TokenScale]
            /\ thr' = [thr EXCEPT ![th].pc = "set_last"]
    /\ UNCHANGED <<pipeline, clock, completed>>

\* time.sleep returns, not before the time asked for; self.tokens = 0
Wake(th) ==
    /\ Sleeping(th)
    /\ clock >= thr[th].wake
    /\ rate_limiter' = [rate_limiter EXCEPT !.tokens = 0]
    /\ thr' = [thr EXCEPT ![th].pc = "set_last"]
    /\ UNCHANGED <<pipeline, clock, completed>>

\* self.last = now; the with-block ends and acquire() returns
SetLast(th) ==
    /\ thr[th].pc = "set_last"
    /\ rate_limiter' = [rate_limiter EXCEPT !.last = thr[th].now, !.lock = 0]
    /\ thr' = [thr EXCEPT ![th] = [IdleThread EXCEPT !.calls = thr[th].calls]]
    /\ completed' = Append(completed, clock)
    /\ UNCHANGED <<pipeline, clock>>

LimiterNext ==
    \/ Advance
    \/ \E th \in Threads : Call(th)
    \/ \E th \in Threads : Enter(th)
    \/ \E th \in Threads : Refill(th)
    \/ \E th \in Threads : Cap(th)
    \/ \E th \in Threads : Branch(th)
    \/ \E th \in Threads : Wake(th)
    \/ \E th \in Threads : SetLast(th)

LimiterSpec == LimiterInit /\ [][LimiterNext]_vars

\* a thread inside acquire() keeps running, time passes, and the lock is
\* handed out fairly: no waiting thread is passed over for ever
FairLimiterSpec ==
    /\ LimiterSpec
    /\ WF_vars(Advance)
    /\ \A th \in Threads :
          /\ SF_vars(Enter(th))
          /\ WF_vars(Refill(th) \/ Cap(th) \/ Branch(th) \/ Wake(th) \/ SetLast(th))

\* ================================================================ properties
\* show s is in eligible_shows
InEligible(s) == \E i \in 1..Len(eligible_shows) : eligible_shows[i].id = s

\* guard g was evaluated for show s in this run and answered v
Answered(s, g, v) ==
    \E i \in 1..Len(trace[s]) : trace[s][i].guard = g /\ trace[s][i].ret = v

\* guard g was evaluated for show s in this run
Evaluated(s, g) == \E i \in 1..Len(trace[s]) : trace[s][i].guard = g

\* the loop over shows is past the Plex guard of show s (a run that an
\* exception ended inside a guard of s never got past it)
PastPlexGuard(s) ==
    ~(pc \in {"structural", "overseerr", "tautulli", "plex", "aborted"}
      /\ idx <= Len(shows) /\ shows[idx].id = s)

\* C1: a show is in eligible_shows only if, in this run, both structural
\* guards answered no, is_recent_request answered False unless
\* --skip-overseerr, get_watch_stats answered False unless --skip-tautulli,
\* and has_watch_history answered False; and a show whose watch-stats check
\* answered False has had its Plex watch history consulted once the loop has
\* moved past that guard.
C1_EligibleOnlyIfAllNegative ==
    \A s \in Shows :
        /\ InEligible(s) =>
              /\ Answered(s, "first_season", FALSE)
              /\ Answered(s, "first_episode", FALSE)
              /\ ~args.skip_overseerr => Answered(s, "overseerr", FALSE)
              /\ ~args.skip_tautulli => Answered(s, "tautulli", FALSE)
              /\ Answered(s, "plex", FALSE)
              /\ \A i \in 1..Len(trace[s]) : ~trace[s][i].ret
        /\ (Answered(s, "tautulli", FALSE) /\ PastPlexGuard(s)) => Evaluated(s, "plex")

\* C1 witness: with every guard enabled, a show is eligible after all four
\* adapters' guards answered no
C1_Witness ==
    \E s \in Shows :
        /\ InEligible(s)
        /\ ~args.skip_overseerr /\ ~args.skip_tautulli
        /\ args.ignore_first_season /\ args.ignore_first_episode
        /\ Answered(s, "overseerr", FALSE)
        /\ Answered(s, "tautulli", FALSE)
        /\ Answered(s, "plex", FALSE)

\* C2: a show for which a check could not be completed in this run (the
\* adapter's external call failed) is not in eligible_shows.
C2_FailClosed ==
    \A s \in Shows :
        (\E i \in 1..Len(trace[s]) : trace[s][i].failed) => ~InEligible(s)

\* C3: once a guard has rejected a show, that guard is the last one
\* evaluated for the show in this run, and the show is not in eligible_shows.
C3_ShortCircuit ==
    \A s \in Shows :
        \A i \in 1..Len(trace[s]) :
            trace[s][i].ret => (i = Len(trace[s]) /\ ~InEligible(s))

\* C3 witness: the run is over, and a show rejected by the recent-request
\* guard has had no later guard evaluated
C3_Witness ==
    /\ pc = "idle" /\ run > 0
    /\ \E s \in Shows :
          /\ Answered(s, "overseerr", TRUE)
          /\ ~Evaluated(s, "tautulli") /\ ~Evaluated(s, "plex")
          /\ ~InEligible(s)

\* the number of times record_action was called in this run
RECURSIVE RecordedIn(_)
RecordedIn(S) ==
    IF S = {} THEN 0
    ELSE LET s == CHOOSE x \in S : TRUE
         IN  Len(SelectSeq(ops[s], LAMBDA o : o.op = "record_action"))
             + RecordedIn(S \ {s})

\* C4: every action recorded for an eligible show has added one row to the
\* actions table.
C4_ActionLogged == Len(db_actions) = RecordedIn(Shows)

\* C5: the action and last_modified of a shows row change only in the step
\* that records an action for that show.
C5_ProjectionFrame ==
    [][\A s \in Shows :
          (db_shows'[s].action # db_shows[s].action
           \/ db_shows'[s].last_modified # db_shows[s].last_modified)
          => (pc = "act_record" /\ eligible_shows[idx].id = s)]_vars

\* the operations a disposition invokes, in order, with the record of the action
ExpectedOps(a) ==
    CASE a = "delete" -> <<"delete_show", "unmonitor_series", "record_action">>
      [] a = "keep_first_season" ->
            <<"keep_first_season", "unmonitor_series", "record_action">>
      [] a = "keep_first_episode" ->
            <<"keep_first_episode", "unmonitor_series", "record_action">>
      [] OTHER -> <<"record_action">>

\* C6: the operations invoked on a show are, in order, those of its
\* disposition: the Plex operation of that name then unmonitor_series for
\* delete, keep_first_season and keep_first_episode; none for keep.
C6_DispositionOps ==
    \A s \in Shows :
        /\ Len(ops[s]) > 0 =>
              LET expected == ExpectedOps(ops[s][1].action)
              IN  /\ Len(ops[s]) <= Len(expected)
                  /\ \A i \in 1..Len(ops[s]) :
                        /\ ops[s][i].op = expected[i]
                        /\ ops[s][i].action = ops[s][1].action
        /\ (pc = "idle" /\ InEligible(s)) =>
              Len(ops[s]) = Len(ExpectedOps(ops[s][1].action))

\* C6 witness: the run is over with one show trimmed to its first season
\* and another one kept
C6_Witness ==
    /\ pc = "idle"
    /\ \E s, k \in Shows :
          /\ ops[s] # <<>> /\ ops[s][1].action = "keep_first_season"
          /\ Len(ops[s]) = 3
          /\ ops[k] # <<>> /\ ops[k][1].action = "keep" /\ Len(ops[k]) = 1

InventoryOps == {"delete_show", "keep_first_season", "keep_first_episode"}

\* C7: every Plex operation invoked on a show, whatever it returned, is
\* followed by unmonitor_series, and unmonitor_series, whatever it returned,
\* by record_action, once the loop has moved on; when the run is over every
\* eligible show has had its action recorded.
C7_SubStepsIndependent ==
    \A s \in Shows :
        /\ \A i \in 1..Len(ops[s]) :
              (i < Len(ops[s]) \/ pc \in {"act_choose", "idle"}) =>
                 /\ ops[s][i].op \in InventoryOps =>
                       (i < Len(ops[s]) /\ ops[s][i + 1].op = "unmonitor_series")
                 /\ ops[s][i].op = "unmonitor_series" =>
                       (i < Len(ops[s]) /\ ops[s][i + 1].op = "record_action")
        /\ (pc = "idle" /\ InEligible(s)) =>
              (ops[s] # <<>> /\ Last(ops[s]).op = "record_action")

\* C7 witness: the run is over; for the first eligible show both the Plex
\* operation and unmonitor_series failed, its action was recorded, and the
\* second eligible show was processed after it
C7_Witness ==
    /\ pc = "idle"
    /\ Len(eligible_shows) = 2
    /\ LET a == eligible_shows[1].id
           b == eligible_shows[2].id
       IN  /\ Len(ops[a]) = 3
           /\ ops[a][1].op \in InventoryOps /\ ~ops[a][1].ok
           /\ ops[a][2].op = "unmonitor_series" /\ ~ops[a][2].ok
           /\ ops[a][3].op = "record_action"
           /\ db_shows[a].action = ops[a][3].action
           /\ ops[b] # <<>> /\ Last(ops[b]).op = "record_action"

\* ------------------------------------------------------------- the adapters
\* this step is a query `name` (its record is in last_op')
QueryStep(name) == last_op' # last_op /\ last_op'.op = name

\* the row exists and its age is below cache_ttl / at or above it
RowFresh(row) == row.found /\ now - row.last_checked < CacheTtlHours
RowStale(row) == row.found /\ now - row.last_checked >= CacheTtlHours

\* what a query for a fresh entry does: the cached boolean, no external call,
\* no token, nothing written
ServedFromCache(cache) ==
    /\ last_op'.ret = cache[last_op'.show].value
    /\ last_op'.calls = 0
    /\ last_op'.acquires = 0
    /\ limiter' = limiter
    /\ UNCHANGED <<overseerr_cache, tautulli_cache, plex_cache, snapshot>>

\* C8: in each of the three adapters, a query for a show whose cache row has
\* age < cache_ttl returns the row's boolean, makes no external call,
\* acquires no rate-limiter token and leaves the caches as they were.
C8_FreshHit ==
    [][/\ (QueryStep("is_recent_request") /\ RowFresh(overseerr_cache[last_op'.show]))
            => ServedFromCache(overseerr_cache)
       /\ (QueryStep("get_watch_stats") /\ RowFresh(tautulli_cache[last_op'.show]))
            => ServedFromCache(tautulli_cache)
       /\ (QueryStep("has_watch_history") /\ RowFresh(plex_cache[last_op'.show]))
            => ServedFromCache(plex_cache)]_vars

\* C8 witness: is_recent_request has answered True from a row written an
\* hour earlier
C8_Witness ==
    /\ last_op.op = "is_recent_request"
    /\ last_op.path = "fresh"
    /\ last_op.ret
    /\ overseerr_cache[last_op.show].found
    /\ overseerr_cache[last_op.show].last_checked < now

\* a query met a stale row and wrote the answer it returns over it, with the
\* current time
Overwritten(cache, newcache) ==
    newcache[last_op'.show] = Row(last_op'.ret, now)

WatchReverified(cache, newcache) ==
    /\ last_op'.path = "stale"
    /\ last_op'.calls >= 1
    /\ last_op'.acquires >= 1
    /\ IF last_op'.failed
       THEN ~last_op'.ret /\ newcache[last_op'.show] = cache[last_op'.show]
       ELSE last_op'.ret = (last_op'.plays > 0) /\ Overwritten(cache, newcache)

\* the request adapter's query for a stale row: it refetches the request
\* list, or scans the in-memory snapshot while that is fresh; it either
\* writes the answer it returns over the row, or returns False and leaves the
\* row; a scan that completes always writes
RequestReverified ==
    /\ last_op'.path = "stale"
    /\ IF SnapshotFresh(snapshot, now)
       THEN last_op'.calls = 0 /\ snapshot' = snapshot
       ELSE last_op'.calls >= 1 /\ last_op'.acquires >= 1
    /\ \/ Overwritten(overseerr_cache, overseerr_cache')
       \/ /\ ~last_op'.ret
          /\ overseerr_cache'[last_op'.show] = overseerr_cache[last_op'.show]
          /\ \/ last_op'.failed
             \/ /\ last_op'.calls >= 1
                /\ \/ ~\E i \in 1..Len(snapshot'.reqs) :
                           /\ snapshot'.reqs[i].show = last_op'.show
                           /\ snapshot'.reqs[i].kind # "missing"
                   \/ \E i \in 1..Len(snapshot'.reqs) :
                           /\ snapshot'.reqs[i].show # 0
                           /\ snapshot'.reqs[i].kind = "bad"

C10_MissUpsert ==
    [][/\ (QueryStep("get_watch_stats") /\ ~tautulli_cache[last_op'.show].found
           /\ ~last_op'.failed)
            => /\ last_op'.path = "miss"
               /\ last_op'.ret = (last_op'.plays > 0)
               /\ tautulli_cache' =
                     [tautulli_cache EXCEPT ![last_op'.show] = Row(last_op'.ret, now)]
       /\ (QueryStep("has_watch_history") /\ ~plex_cache[last_op'.show].found
           /\ ~last_op'.failed)
            => /\ last_op'.path = "miss"
               /\ last_op'.ret = (last_op'.plays > 0)
               /\ plex_cache' =
                     [plex_cache EXCEPT ![last_op'.show] = Row(last_op'.ret, now)]]_vars

\* C10 witness: has_watch_history, on a miss, was given a non-empty history,
\* has returned True, and the row holds True with the current time
C10_Witness ==
    /\ last_op.op = "has_watch_history"
    /\ last_op.path = "miss"
    /\ ~last_op.failed
    /\ last_op.ret
    /\ last_op.plays > 0
    /\ plex_cache[last_op.show] = Row(TRUE, now)

\* ------------------------------------------------------ the request adapter
\* the list holds a request of show s created less than the threshold before t
HasRecentRecord(reqs, s, t) ==
    \E i \in 1..Len(reqs) :
        reqs[i].show = s /\ reqs[i].kind = "ok" /\ (t - reqs[i].at) < ThresholdTicks

\* C11: is_recent_request, not answered from a fresh cache row and its fetch
\* not failing, returns True iff the current snapshot holds at least one
\* request of the show created less than the threshold ago, whether it scanned
\* the snapshot or read the row the bulk refresh wrote, and whatever the
\* number and order of the show's records.
C11_RecentIffSnapshot ==
    (pc = "recent_done" /\ last_op.path # "fresh" /\ ~last_op.failed) =>
        (last_op.ret = HasRecentRecord(snapshot.reqs, last_op.show, now))

Window == LimiterRate * TokenScale

\* the acquire() calls that returned within the 60 seconds starting at time a
ReturnedInWindow(a) ==
    {j \in 1..Len(completed) : a <= completed[j] /\ completed[j] < a + Window}

\* C13: of the acquire() calls on a limiter of rate R per minute, no more
\* than R, with a slack of one call, return within any 60 seconds.
C13_RatePerWindow ==
    \A i \in 1..Len(completed) :
        Cardinality(ReturnedInWindow(completed[i])) <= rate_limiter.rate + 1

\* C14: every acquire() call eventually returns: a thread that has called
\* acquire() is eventually back outside it, its call having returned and not
\* ended in an error.
C14_EventuallyGranted ==
    \A th \in Threads : (thr[th].pc = "with") ~> (thr[th].pc = "idle")

\* C15: on a limiter configured with rate 0 no acquire() call ends in a
\* division by zero.
C15_ZeroRateNoError ==
    rate_limiter.rate = 0 => \A th \in Threads : thr[th].pc # "raised"

\* thread th is inside the with-block of acquire()
InCritical(th) == thr[th].pc \in {"refill", "cap", "branch", "sleep", "set_last"}

\* refill-then-consume as one step: the tokens a call leaves that found the
\* limiter as `entry` and read the time t
AtomicTokens(entry, t) ==
    LET added == entry.tokens + ((t - entry.last) * rate_limiter.rate) \div LimiterRate
        capped == Min(added, rate_limiter.rate * TokenScale)
    IN  IF capped < TokenScale THEN 0 ELSE capped - TokenScale

\* at most one thread is inside the with-block, and outside the two
\* statements that refill and cap, the token count is within [0, rate]
ExclusiveAndInRange ==
    /\ \A a, b \in Threads : (InCritical(a) /\ InCritical(b)) => a = b
    /\ (\A th \in Threads : thr[th].pc # "cap") =>
          (rate_limiter.tokens >= 0
           /\ rate_limiter.tokens <= rate_limiter.rate * TokenScale)

\* C16: under any interleaving of the threads calling acquire() on one
\* limiter, at most one is inside the critical section, the token count stays
\* within [0, rate], and a call that returns leaves exactly the tokens and
\* last-refill time that refill-then-consume, run as one step on the limiter
\* as the call found it, would leave: no update of another caller is lost and
\* no token is consumed twice.
C16_AtomicAcquire ==
    [][/\ ExclusiveAndInRange'
       /\ \A th \in Threads :
             (thr[th].pc = "set_last" /\ thr'[th].pc = "idle") =>
                /\ rate_limiter'.tokens = AtomicTokens(thr[th].entry, thr[th].now)
                /\ rate_limiter'.last = thr[th].now]_vars

\* C16 witness: two calls have returned, and one thread waits for the lock
\* while the other sleeps inside the critical section
C16_Witness ==
    /\ Len(completed) >= 2
    /\ \E a, b \in Threads :
          /\ thr[a].pc = "with"
          /\ thr[b].pc = "sleep"
          /\ rate_limiter.lock = b

\* -------------------------------------------------------------------- reruns
\* C17: in a run started with --force-refresh no eligibility check is
\* answered from a cache entry written before the run: the watch-stats and
\* watch-history checks, whose rows only their own query writes, never take
\* the fresh-row path, and neither does the recent-request check while this
\* run has fetched no request list.
C17_ForceRefreshBypasses ==
    args.force_refresh =>
        \A s \in Shows : \A i \in 1..Len(trace[s]) :
            /\ trace[s][i].guard \in {"tautulli", "plex"} => trace[s][i].path # "fresh"
            /\ (trace[s][i].guard = "overseerr" /\ ~snapshot.valid) =>
                  trace[s][i].path # "fresh"

\* the flags of a command line that the classification reads
ConfigOf(a) ==
    <<a.skip_overseerr, a.skip_tautulli, a.ignore_first_season,
      a.ignore_first_episode, a.force_refresh>>

\* the structural guards of show s, as evaluated in a run's trace
StructuralOf(tr, s) ==
    SelectSeq(tr[s], LAMBDA e : e.guard \in {"first_season", "first_episode"})

\* every adapter check of this run was answered from a fresh cache row
AllFresh ==
    \A s \in Shows : \A i \in 1..Len(trace[s]) :
        trace[s][i].guard \in {"overseerr", "tautulli", "plex"} =>
            trace[s][i].path = "fresh"

\* this run and the previous one saw the same library, the same structural
\* flags and, unless the request check is skipped, the same request list,
\* which the previous run fetched once
SameSources ==
    /\ shows = prev.shows
    /\ \A s \in Shows : StructuralOf(trace, s) = StructuralOf(prev.trace, s)
    /\ \/ args.skip_overseerr
       \/ /\ prev.now = 0
          /\ prev.snapshot.valid /\ snapshot.valid
          /\ snapshot.reqs = prev.snapshot.reqs

\* a second run has classified its shows with the configuration and the
\* sources of the first, every check answered from a fresh row
SecondRunFresh ==
    /\ run = 2
    /\ pc \in {"commit", "report", "act_choose", "act_inventory", "act_unmonitor",
               "act_record", "idle"}
    /\ ConfigOf(args) = ConfigOf(prev.args)
    /\ SameSources
    /\ AllFresh

FetchedSnapshot == snapshot.valid

LookedUp(s) ==
    \E i \in 1..Len(trace[s]) :
        trace[s][i].guard = "eligible" /\ trace[s][i].path = "lookup"

\* C19: a second run with unchanged sources, all checks answered from fresh
\* rows and a show found eligible sends no call to the request tracker or the watch-history
\* service: no request snapshot fetch and no id lookup.
C19_NoOutboundCalls ==
    (SecondRunFresh /\ eligible_shows # <<>>) =>
        (~FetchedSnapshot /\ \A s \in Shows : ~LookedUp(s))

\* C20: when the shows row of a show already holds a cross-reference id, the
\* step that finds the show eligible sends no lookup for the id.
C20_NeverRederived ==
    [][(pc = "eligible" /\ idx' = idx + 1 /\ db_shows[shows[idx].id].tvdb_id # 0)
          => Last(trace'[shows[idx].id]).path # "lookup"]_vars

\* ------------------------------------------------------ failures in the loop
\* C21: a failure while a show is processed does not end the run with shows
\* of the library still to be classified.
C21_PerItemIsolation ==
    ~(pc = "aborted" /\ idx < Len(shows))

\* C22: after an enumeration that failed the library is empty to the run; the
\* run goes past the loop to the report and ends, never by an exception, with
\* no show eligible, no operation applied and no row written.
C22_EmptyOnEnumerationFailure ==
    (last_op.op = "get_shows" /\ last_op.failed) =>
        /\ shows = <<>>
        /\ pc \in {"commit", "report", "idle"}
        /\ eligible_shows = <<>>
        /\ \A s \in Shows : ops[s] = <<>> /\ trace[s] = <<>>
        /\ db_shows = [s \in Shows |-> NoShowRow]
        /\ db_actions = <<>>

\* C22 witness: a run whose enumeration failed is over
C22_Witness ==
    /\ last_op.op = "get_shows"
    /\ last_op.failed
    /\ run = 1
    /\ pc = "idle"

\* ------------------------------------------------------------ the batch write
\* overseerr_cache with every row of the batch written over an empty table
WholeBatch ==
    replace_many(EmptyCache, CacheUpdates(snapshot.reqs), snapshot.ts)

\* C23: after the batch write of a snapshot, and after whatever is committed
\* later, the durable overseerr_cache holds every row of the batch or none.
C23_BatchAllOrNothing ==
    (pc \in {"batch_done", "batch_committed", "batch_closed"}) =>
        durable \in {EmptyCache, WholeBatch}

\* ------------------------------------------------- records without a date
\* the snapshot holds a request of show s with a parsable createdAt
HasDatedRecord(reqs, s) ==
    \E i \in 1..Len(reqs) : reqs[i].show = s /\ reqs[i].kind = "ok"

\* C24: a record whose createdAt is missing or unparsable counts as not
\* recent and changes nothing else: every show with a dated request in the
\* fetched snapshot has its cache entry written, and a query answered by a
\* scan of the snapshot returns True iff the show has a recent dated request.
C24_UndatedRecordIsNotRecent ==
    /\ (pc \in {"recent_query", "recent_done"} /\ snapshot.valid) =>
          \A s \in Shows :
              HasDatedRecord(snapshot.reqs, s) => overseerr_cache[s].found
    /\ (pc = "recent_done" /\ last_op.path # "fresh" /\ last_op.calls = 0) =>
          (last_op.ret = HasRecentRecord(snapshot.reqs, last_op.show, now))

\* ------------------------------------------------------ structural exclusion
StructuralGuards == {"first_season", "first_episode"}

\* show s was rejected by a structural guard in this run
StructurallyExcluded(s) ==
    \E i \in 1..Len(trace[s]) :
        trace[s][i].guard \in StructuralGuards /\ trace[s][i].ret

\* C25: a show whose only-first-season or only-first-episode flag is set, in
\* a run told to ignore such shows, is excluded with no query of Overseerr,
\* Tautulli or Plex for it, no id lookup, no token taken and nothing written;
\* it is not eligible and no operation is applied to it.
C25_ExcludedBeforeAnyCall ==
    /\ [](\A s \in Shows :
            StructurallyExcluded(s) =>
                /\ \A i \in 1..Len(trace[s]) : trace[s][i].guard \in StructuralGuards
                /\ ~InEligible(s)
                /\ ops[s] = <<>>)
    /\ [][(pc = "structural" /\ trace' # trace
           /\ Last(trace'[shows[idx].id]).ret)
          => /\ limiter' = limiter
             /\ UNCHANGED <<db, snapshot, eligible_shows, skipped_shows>>
             /\ pc' = next_show(idx, Len(shows))]_vars

\* C25 witness: a run is over in which a show was excluded for having only
\* its first episode, and another show went through the three checks
C25_Witness ==
    /\ pc = "idle"
    /\ \E s, k \in Shows :
          /\ Answered(s, "first_episode", TRUE)
          /\ Answered(k, "plex", FALSE)
          /\ InEligible(k)


\* the request-recency guard of show s did not answer from its row: the row
\* had expired and the answer was computed again
ReverifiedRequest(s) ==
    \E i \in 1..Len(trace[s]) :
        trace[s][i].guard = "overseerr" /\ trace[s][i].path = "stale"

\* the row of show s in a watch-history cache is fresh and says 'not watched'
FreshNegative(cache, s) == RowFresh(cache[s]) /\ ~cache[s].value

\* guard g of show s answered from its fresh row
AnsweredFromRow(s, g) ==
    \E i \in 1..Len(trace[s]) :
        trace[s][i].guard = g /\ trace[s][i].path = "fresh" /\ ~trace[s][i].ret

\* C26: freshness is decided per source and per item.  For an item whose
\* request-recency row has expired the request guard computes its answer
\* again, and a watch-history guard that finds a fresh negative row for the
\* item afterwards takes no token of its service, asks it nothing and leaves
\* the row as it is.
C26_OnlyStaleSourceReverified ==
    [][/\ (pc = "overseerr" /\ ~args.skip_overseerr
            /\ RowStale(overseerr_cache[shows[idx].id]) /\ pc' # "aborted")
          => Last(trace'[shows[idx].id]).path = "stale"
       /\ (pc = "tautulli" /\ ReverifiedRequest(shows[idx].id)
            /\ FreshNegative(tautulli_cache, shows[idx].id))
          => /\ limiter'["tautulli"] = limiter["tautulli"]
             /\ tautulli_cache' = tautulli_cache
             /\ pc' = "plex"
       /\ (pc = "plex" /\ ReverifiedRequest(shows[idx].id)
            /\ FreshNegative(plex_cache, shows[idx].id) /\ pc' # "aborted")
          => /\ limiter'["plex"] = limiter["plex"]
             /\ plex_cache' = plex_cache
             /\ pc' = "eligible"]_vars

\* a show passed the three guards with an expired request row and fresh
\* negative rows of both watch-history sources
C26_Witness ==
    \E s \in Shows :
        /\ InEligible(s)
        /\ ReverifiedRequest(s)
        /\ AnsweredFromRow(s, "tautulli")
        /\ AnsweredFromRow(s, "plex")
        /\ plex_cache[s] = Row(FALSE, CacheTtlHours - 1)
        /\ overseerr_cache[s] = Row(FALSE, now)


\* the counts of the summary (cli.py 149-153): one line per entry of
\* skipped_shows and the number of eligible shows
ReportedCounts ==
    skipped_shows.overseerr + skipped_shows.tautulli + skipped_shows.plex
        + Len(eligible_shows)

C28_DiscoveredIdPersisted ==
    [][/\ (pc = "tautulli" /\ tvdb_temp' # 0 /\ pc' # "plex")
          => db_shows'[shows[idx].id].tvdb_id = tvdb_temp'
       /\ (pc = "plex" /\ ~args.skip_tautulli /\ tvdb_temp # 0
            /\ pc' \notin {"eligible", "aborted"})
          => db_shows'[shows[idx].id].tvdb_id = tvdb_temp]_vars


\* a step that is a call of delete_show
DeleteStep == QueryStep("delete_show")

\* delete_show(k) deletes the show of key k and returns True when the section
\* has such a show, and returns False and deletes nothing when it has none
C29_DeletesExactlyK ==
    [][DeleteStep =>
          IF last_op'.show \in library
          THEN last_op'.ret /\ library' = library \ {last_op'.show}
          ELSE ~last_op'.ret /\ library' = library]_vars

\* C29: delete_show(k) deletes the show whose key equals k and returns True,
\* unless the server's listing or its deletion raises, and then it returns
\* False and deletes nothing; with no show of key k it returns False and
\* deletes nothing; it never deletes a show of another key, and it returns
\* True only when it deleted the show of key k.
C29_DeletesKUnlessServerFails ==
    [][DeleteStep =>
          /\ library' \subseteq library
          /\ library \ library' \subseteq {last_op'.show}
          /\ last_op'.ret <=> (last_op'.show \in library /\ last_op'.show \notin library')
          /\ last_op'.show \notin library => ~last_op'.ret /\ library' = library
          /\ last_op'.failed => ~last_op'.ret /\ library' = library
          /\ (last_op'.show \in library /\ ~last_op'.failed)
             => last_op'.ret /\ library' = library \ {last_op'.show}]_vars

\* a show was deleted from a section that still holds another show
C29_Witness ==
    /\ last_op.op = "delete_show"
    /\ last_op.ret
    /\ last_op.show \notin library
    /\ library # {}


\* a call of is_recent_request for a show whose row is absent or expired,
\* made while the snapshot in memory is younger than its TTL
ScanStep ==
    /\ QueryStep("is_recent_request")
    /\ ~RowFresh(overseerr_cache[last_op'.show])
    /\ SnapshotFresh(snapshot, now)

\* C30: with the row of the queried show absent or expired and a snapshot
\* younger than its TTL in memory, is_recent_request answers from a scan of
\* the snapshot: no call, no token, the snapshot and its timestamp as they
\* were, and the computed boolean written for the queried show only.
C30_LocalScanBackfills ==
    [][ScanStep =>
          /\ last_op'.calls = 0
          /\ last_op'.acquires = 0
          /\ limiter' = limiter
          /\ snapshot' = snapshot
          /\ overseerr_cache' = [overseerr_cache EXCEPT ![last_op'.show] =
                                    Row(last_op'.ret, now)]]_vars


\* a call of is_recent_request that finds neither a fresh row of the queried
\* show nor a snapshot younger than its TTL, and so refreshes the snapshot
RefreshStep ==
    /\ QueryStep("is_recent_request")
    /\ ~RowFresh(overseerr_cache[last_op'.show])
    /\ ~SnapshotFresh(snapshot, now)

\* C31: a snapshot refresh triggered by is_recent_request takes exactly one
\* token of the Overseerr limiter, and a query that does not fetch takes none.
C31_OneTokenPerRefresh ==
    [][QueryStep("is_recent_request") =>
          /\ last_op'.acquires = IF RefreshStep THEN 1 ELSE 0
          /\ limiter'["overseerr"] =
                IF RefreshStep THEN acquire(limiter["overseerr"], now)
                ELSE limiter["overseerr"]]_vars


\* the TV requests of pages 1..n of the answer, in page order
RECURSIVE TvOfPages(_, _)
TvOfPages(resp, n) ==
    IF n = 0 THEN <<>>
    ELSE TvOfPages(resp, n - 1) \o extract_tv_requests(resp.pages[n].results)

\* page one of the followed fetch reported P pages and every page request
\* that was made succeeded
ReportedPages(P) ==
    /\ pc = "fetch_done"
    /\ wire.resp.endpoint # "none"
    /\ wire.resp.pageinfo
    /\ wire.resp.totals[1] = P
    /\ \A i \in 1..Len(wire.log) : wire.resp.pages[wire.log[i]].ok

\* the fetch requested pages 1..n, each once and in increasing order, and
\* the snapshot holds the TV requests of those pages
FetchedPages(n) ==
    /\ wire.log = [i \in 1..n |-> i]
    /\ snapshot.valid
    /\ snapshot.reqs = TvOfPages(wire.resp, n)

\* when page one reports P pages and every page request succeeds, the fetch
\* requests exactly pages 1..P and the snapshot holds their TV requests
C32_RequestsPagesOneToP ==
    \A P \in 0..MaxLoopPages : ReportedPages(P) => FetchedPages(P)

\* C32: the bulk fetch ends, and when page one reports P pages and every
\* page request succeeds it has requested exactly pages 1..max(P, 1), each
\* once and in increasing order, and the snapshot holds the TV requests of
\* those pages; the counts that later pages carry change nothing.
C32_RequestsPagesOneToMaxP1 ==
    \A P \in 0..MaxLoopPages : ReportedPages(P) => FetchedPages(Max(P, 1))

\* a fetch of MaxLoopPages pages whose second page carried another count
C32_Witness ==
    /\ ReportedPages(MaxLoopPages)
    /\ wire.resp.totals[2] < MaxLoopPages
    /\ wire.log = [i \in 1..MaxLoopPages |-> i]
    /\ Len(snapshot.reqs) >= 2


\* a run is in progress or has ended
RunStarted == pc # "idle" \/ run > 0

\* C33: in a run with --skip-overseerr no bulk fetch is made, the prefetch
\* included, no token of the Overseerr limiter is taken and no show is
\* rejected for a recent request; in a run with --skip-tautulli no call to
\* Tautulli is made, the metadata lookups included; the guards that are left
\* are evaluated as before for every eligible show.
C33_SkippedSourceUntouched ==
    /\ [](RunStarted =>
            /\ args.skip_overseerr =>
                  /\ snapshot = NoSnapshot
                  /\ overseerr_cache = EmptyCache
                  /\ skipped_shows.overseerr = 0
                  /\ \A s \in Shows : ~Evaluated(s, "overseerr")
            /\ args.skip_tautulli =>
                  /\ tautulli_cache = EmptyCache
                  /\ skipped_shows.tautulli = 0
                  /\ \A s \in Shows :
                        /\ ~Evaluated(s, "tautulli")
                        /\ \A i \in 1..Len(trace[s]) : trace[s][i].path # "lookup"
            /\ \A s \in Shows : InEligible(s) =>
                  /\ Answered(s, "first_season", FALSE)
                  /\ Answered(s, "first_episode", FALSE)
                  /\ Answered(s, "plex", FALSE)
                  /\ ~args.skip_overseerr => Answered(s, "overseerr", FALSE)
                  /\ ~args.skip_tautulli => Answered(s, "tautulli", FALSE))
    /\ [][(pc # "idle") =>
            /\ args.skip_overseerr => limiter'["overseerr"] = limiter["overseerr"]
            /\ args.skip_tautulli => limiter'["tautulli"] = limiter["tautulli"]]_vars

\* a run with both checks skipped found a show eligible and ended
C33_Witness ==
    /\ args.skip_overseerr
    /\ args.skip_tautulli
    /\ eligible_shows # <<>>
    /\ pc = "report"


\* a call of get_watch_stats or has_watch_history whose query of the server failed
FailedWatchStep ==
    /\ QueryStep("has_watch_history") \/ QueryStep("get_watch_stats")
    /\ last_op'.failed

\* the cache of the adapter that last_op names
CacheOf(op) == IF op = "get_watch_stats" THEN tautulli_cache ELSE plex_cache

\* C34: a failed check of a watch adapter is one attempt: one token and one
\* call, nothing written to the cache (the row of the show keeps its value
\* and timestamp, or stays absent), and the next query for the show, finding no
\* fresh row, asks the server again.
C34_FailedCheckSingleAttempt ==
    [][/\ FailedWatchStep =>
             /\ last_op'.calls = 1
             /\ last_op'.acquires = 1
             /\ tautulli_cache' = tautulli_cache
             /\ plex_cache' = plex_cache
             /\ ~RowFresh(CacheOf(last_op'.op)[last_op'.show])
       /\ (/\ last_op.failed
           /\ last_op.op \in {"has_watch_history", "get_watch_stats"}
           /\ QueryStep(last_op.op)
           /\ last_op'.show = last_op.show)
          => last_op'.calls >= 1]_vars

\* a check failed for a show whose expired row said 'watched', and the row
\* is still there
C34_Witness ==
    /\ last_op.op = "get_watch_stats"
    /\ last_op.failed
    /\ RowStale(tautulli_cache[last_op.show])
    /\ tautulli_cache[last_op.show].value


\* C35: token conservation.  For a limiter of rate R > 0 the calls of
\* acquire() that have returned by time T number at most R + R * T / 60: the
\* initial capacity plus the refill of the time passed (in units of
\* 1 / TokenScale token; one tick refills rate / LimiterRate units).
C35_TokenConservation ==
    rate_limiter.rate > 0 =>
        Len(completed) * TokenScale
            <= rate_limiter.rate * TokenScale + (clock * rate_limiter.rate) \div LimiterRate


\* the operations of kind k applied to show s in this run
OpsOfKind(s, k) == {j \in 1..Len(ops[s]) : ops[s][j].op \in k}

\* the positions of main_cli in and after its action loop
ActionPhase == {"act_choose", "act_inventory", "act_unmonitor", "act_record", "idle"}

\* C36: in any run the Plex operations and the stop of monitoring are applied
\* only to shows that the same run found eligible, and only after every show
\* of the enumeration has been classified; every eligible show gets at most
\* one disposition: at most one Plex operation, one unmonitor_series and one
\* recorded action, all of the same action.
C36_ActionsOnlyOnEligible ==
    \A s \in Shows :
        ops[s] # <<>> =>
            /\ InEligible(s)
            /\ Evaluated(s, "eligible")
            /\ pc \in ActionPhase
            /\ \A i \in 1..Len(shows) : trace[shows[i].id] # <<>>
            /\ \A j \in 1..Len(ops[s]) : ops[s][j].action = ops[s][1].action
            /\ Cardinality(OpsOfKind(s, InventoryOps)) <= 1
            /\ Cardinality(OpsOfKind(s, {"unmonitor_series"})) <= 1
            /\ Cardinality(OpsOfKind(s, {"record_action"})) <= 1

\* a run of two shows, one rejected and one eligible, deleted the eligible one
C36_Witness ==
    /\ Len(shows) = 2
    /\ Len(eligible_shows) = 1
    /\ \E s \in Shows :
          /\ OpsOfKind(s, {"delete_show"}) # {}
          /\ OpsOfKind(s, {"unmonitor_series"}) # {}
          /\ OpsOfKind(s, {"record_action"}) # {}
    /\ pc = "idle"


\* C37: once the shows row of a show carries a cross-reference id, no later
\* step of this run or of a later run leaves the show without a stored id.
C37_StoredIdKept ==
    [][\A s \in Shows :
          db_shows[s].tvdb_id # 0 => db_shows'[s].tvdb_id # 0]_vars


\* C38: the id stored for an eligible show is an id of that show: the one
\* that its own get_watch_stats call or its own metadata lookup returned, or
\* none.  An id found while an earlier show was processed is never attached
\* to a later one.
C38_IdOfSameShow ==
    /\ \A s \in Shows : db_shows[s].tvdb_id \in {0, TvdbOf(s)}
    /\ \A i \in 1..Len(eligible_shows) :
          eligible_shows[i].tvdb_id \in {0, TvdbOf(eligible_shows[i].id)}

\* show 1, for which Tautulli returned an id, was rejected by the Plex guard,
\* and show 2 after it is eligible with its own id
C38_Witness ==
    /\ Answered(1, "tautulli", FALSE)
    /\ Answered(1, "plex", TRUE)
    /\ \E i \in 1..Len(eligible_shows) :
          eligible_shows[i].id = 2 /\ eligible_shows[i].tvdb_id = TvdbOf(2)
    /\ db_shows[2].tvdb_id = TvdbOf(2)


\* a call of is_recent_request whose bulk fetch failed: no working endpoint,
\* or a page request that failed
FailedFetchStep ==
    /\ QueryStep("is_recent_request")
    /\ last_op'.calls > 0
    /\ last_op'.failed

\* C39: a bulk fetch that fails stores no fresh not-recent row for any show
\* and does not replace the snapshot in memory by what it collected.
C39_NoNegativeFromFailedFetch ==
    [][FailedFetchStep =>
          /\ snapshot' = snapshot
          /\ \A s \in Shows :
                overseerr_cache'[s] # overseerr_cache[s] => overseerr_cache'[s].value]_vars


\* the action loop runs, or has run, without prompts and without --action
NoDefaultDisposition == args.skip_confirmation /\ args.action = ""

\* C40: with --skip-confirmation and no action configured every eligible
\* show is kept: the only operation applied to a show is the recording of
\* 'keep', and when the run has ended every eligible show has exactly that
\* one operation and 'keep' in its shows row.
C40_DefaultIsKeep ==
    NoDefaultDisposition =>
        /\ \A s \in Shows : \A j \in 1..Len(ops[s]) :
              ops[s][j].op = "record_action" /\ ops[s][j].action = "keep"
        /\ (pc = "idle" /\ run > 0) =>
              \A i \in 1..Len(eligible_shows) :
                 /\ Len(ops[eligible_shows[i].id]) = 1
                 /\ db_shows[eligible_shows[i].id].action = "keep"

\* such a run has ended with two eligible shows
C40_Witness ==
    /\ NoDefaultDisposition
    /\ pc = "idle"
    /\ Len(eligible_shows) = 2
    /\ \A s \in Shows : Len(ops[s]) = 1 /\ db_shows[s].action = "keep"

====
